---------------------------- MODULE Spec2Model ----------------------------
(***************************************************************************)
(* A model of the analytics core of the trading dashboard                  *)
(* (src/dashboard/analytics.py): compute_series turns a table of daily     *)
(* per-instrument PnL and a column selection into a SeriesPack, and        *)
(* compute_metrics turns a SeriesPack into the ordered metrics report.     *)
(* Around them: filter_df_by_range and next_range_key (the range of a      *)
(* panel), the metrics tables of callbacks.py, the rolling-correlation     *)
(* charts of figures.py, concurrent callers of the core, and the callbacks *)
(* of callbacks.py that keep the stores and controls of the page.          *)
(*                                                                         *)
(* Specifications.                                                         *)
(*    Spec         a table, compute_series, then compute_metrics           *)
(*    SpecPacks    compute_metrics on packs with and without a capital     *)
(*    SpecRange    a panel's range key, cycled and applied to the table    *)
(*    SpecViews    the metrics tables, the correlation chart, the heat map *)
(*    SpecThreads  two threads calling the core on one shared table        *)
(*    SpecRangeControls  the page under range clicks, cycle clicks, resets *)
(*    SpecSettings       the page under the inputs of the settings sidebar *)
(*    SpecStrategy       the page under strategy and product choices       *)
(*    SpecReset          a reset of a settled page, callbacks run fairly   *)
(*                                                                         *)
(* Numbers.  The table holds integer PnL values, so pnl, equity, hwm and   *)
(* drawdown are integers (sums and maxima of integers are exact in the     *)
(* code's float64 too).  Everything that is divided is an exact "float"    *)
(* record [k, n, d]:                                                       *)
(*    k = "num"   the rational n/d in lowest terms, d > 0                  *)
(*    k = "nan"   NaN                                                      *)
(*    k = "inf"   +infinity (n = 1) or -infinity (n = -1)                  *)
(*    k = "sqrt"  sign(n) * sqrt(|n|/d)  (a standard deviation or a ratio  *)
(*                over one; the code's eps = 1e-12 is not represented)     *)
(*    k = "real"  a defined finite real the model does not compute         *)
(*                (a fractional power or a moment ratio)                   *)
(*    k = "huge"  such a real above 1.797e306, a hundred times which is    *)
(*                no double any more                                       *)
(*    k = "tiny"  a positive double below 1e-14 left by rounding where the *)
(*                exact value is 0                                         *)
(* Rounding of float64 is modelled where it decides a branch of the code:  *)
(* in the per-period risk-free rate (RfPeriod), in the deviation of equal  *)
(* returns (FVar) and in the power of the CAGR (PowOverflows); elsewhere,  *)
(* and in the two or four printed decimals, a value keeps the exact number *)
(* it stands for.                                                          *)
(***************************************************************************)
EXTENDS Integers, Sequences, FiniteSets, TLC

VARIABLES
    df,         \* the DailyTable handed to the core: a sequence of rows
    sp,         \* outcome of the last compute_series call
    report,     \* outcome of the last compute_metrics call
    selected,   \* the products list of the last compute_series call
    rf_annual,  \* the risk-free rate of the last compute_metrics call
    pc,         \* position of the caller: "loaded" | "series" | "metrics" | ...
    range_key,  \* the range key of a panel
    filtered,   \* outcome of the last filter_df_by_range call
    visited,    \* the keys a panel went through by cycling, oldest first
    metrics_table, \* outcome of the last metrics-table build
    fig,        \* outcome of the last rolling_correlation_figure call
    th,         \* the frames of the threads that call the core concurrently
    ui          \* the page: stores, controls and the callbacks still to run

rangeVars == <<range_key, filtered, visited>>

viewVars == <<metrics_table, fig>>

vars == <<df, sp, report, selected, rf_annual, pc,
          range_key, filtered, visited, metrics_table, fig, th, ui>>

(***************************************************************************)
(* Bounds of the model.                                                    *)
(***************************************************************************)
MaxRows == 3

\* PnL values a cell of each column may hold
PnlVals == [A |-> {-1, 0, 1}, B |-> {0, 1}, D |-> {1}]

\* instrument columns of the table; D earns the same every day; "C" is a
\* name no table has
Columns == <<"A", "B", "D">>

\* calendar dates <<year, month, day>> the rows are dated with, increasing;
\* March 2024 has no row, so a month-end bin can be empty
DatePool == << <<2023, 12, 29>>, <<2024, 1, 31>>, <<2024, 2, 1>>, <<2024, 4, 30>> >>

\* products lists handed to compute_series
Selections == { <<>>, <<"A">>, <<"B">>, <<"A", "B">>, <<"C">>, <<"A", "C">> }

\* DEFAULT_RF = 0.0 (config.py), in the notation of RfRates
DEFAULT_RF == [k |-> "compound", n |-> 0, d |-> 1]

\* annual risk-free rates handed to compute_metrics, each named by what the
\* code's power makes of it:
\*   k = "compound"  rf_annual is the double nearest (1 + n/d)^252 - 1, and
\*                   rf_period = (1.0 + rf_annual) ** (1.0 / 252) - 1.0 is
\*                   n/d: 0.0 gives 0.0, 11.274002099240244 gives
\*                   0.010000000000000009, -0.9205545483094462 gives
\*                   -0.010000000000000009, and -1.0 gives -1.0
\*   k = "tiny"      rf_annual = n * 1e-17, of either sign: 1.0 + rf_annual
\*                   rounds to 1.0 and rf_period is 0.0
\* A rate below -1.0 is not among them: the power of a negative float is a
\* complex number in Python, (1.0 + -2.0) ** (1.0 / 252) - 1.0 is
\* (-7.77e-05+0.0125j), and what pandas makes of a complex rf_period is
\* not settled here.
RfRates ==
    { DEFAULT_RF,
      [k |-> "compound", n |-> 1, d |-> 100],
      [k |-> "compound", n |-> -1, d |-> 100],
      [k |-> "compound", n |-> -1, d |-> 1],
      [k |-> "tiny", n |-> 1, d |-> 1],
      [k |-> "tiny", n |-> -1, d |-> 1] }

(***************************************************************************)
(* Exact arithmetic on "float" records.                                    *)
(***************************************************************************)
Abs(x) == IF x < 0 THEN -x ELSE x

Sign(x) == IF x < 0 THEN -1 ELSE IF x > 0 THEN 1 ELSE 0

Max2(a, b) == IF a >= b THEN a ELSE b

Min2(a, b) == IF a <= b THEN a ELSE b

RECURSIVE Gcd(_, _)
Gcd(a, b) == IF b = 0 THEN a ELSE Gcd(b, a % b)

NaN == [k |-> "nan", n |-> 0, d |-> 1]

Inf(s) == [k |-> "inf", n |-> s, d |-> 1]

\* the rational n/d, d # 0, in lowest terms with a positive denominator
Rat(n, d) ==
    LET g == Gcd(Abs(n), Abs(d))
        s == IF d < 0 THEN -1 ELSE 1
    IN  [k |-> "num", n |-> (s * n) \div g, d |-> Abs(d) \div g]

Num(i) == [k |-> "num", n |-> i, d |-> 1]

IsNaN(x) == x.k = "nan"

IsNum(x) == x.k = "num"

\* float addition
FAdd(x, y) ==
    IF IsNaN(x) \/ IsNaN(y) THEN NaN
    ELSE IF x.k = "inf" /\ y.k = "inf" THEN (IF x.n = y.n THEN x ELSE NaN)
    ELSE IF x.k = "inf" THEN x
    ELSE IF y.k = "inf" THEN y
    ELSE LET g == Gcd(x.d, y.d)
             l == (x.d \div g) * y.d
         IN  Rat(x.n * (l \div x.d) + y.n * (l \div y.d), l)

FNeg(x) == IF IsNum(x) \/ x.k = "inf" THEN [x EXCEPT !.n = -x.n] ELSE x

FSub(x, y) == FAdd(x, FNeg(y))

FMul(x, y) ==
    IF IsNaN(x) \/ IsNaN(y) THEN NaN
    ELSE IF x.k = "inf" \/ y.k = "inf"
         THEN (IF x.n = 0 \/ y.n = 0 THEN NaN ELSE Inf(Sign(x.n) * Sign(y.n)))
    ELSE LET a == Rat(x.n, y.d)
             b == Rat(y.n, x.d)
         IN  Rat(a.n * b.n, a.d * b.d)

\* float division as numpy does it: x/0 is +-inf, 0/0 is NaN
FDiv(x, y) ==
    IF IsNaN(x) \/ IsNaN(y) THEN NaN
    ELSE IF y.k = "inf" THEN (IF x.k = "inf" THEN NaN ELSE Num(0))
    ELSE IF x.k = "inf" THEN Inf(x.n * (IF y.n < 0 THEN -1 ELSE 1))
    ELSE IF y.n = 0 THEN (IF x.n = 0 THEN NaN ELSE Inf(Sign(x.n)))
    ELSE LET a == Rat(x.n, y.n)
             b == Rat(y.d, x.d)
         IN  Rat(a.n * b.n, a.d * b.d)

\* x < y on floats (false when either is NaN)
FLess(x, y) ==
    IF IsNaN(x) \/ IsNaN(y) THEN FALSE
    ELSE IF x.k = "inf" THEN x.n < 0 /\ ~(y.k = "inf" /\ y.n < 0)
    ELSE IF y.k = "inf" THEN y.n > 0
    ELSE x.n * y.d < y.n * x.d

\* sign(n) * sqrt(|n|/d) of a rational; NaN and +inf pass through
FSqrt(x) ==
    IF IsNum(x) THEN [k |-> "sqrt", n |-> x.n, d |-> x.d]
    ELSE IF x.k = "inf" /\ x.n > 0 THEN x
    ELSE IF x.k = "tiny" THEN x
    ELSE NaN

(***************************************************************************)
(* Sequence helpers (pandas Series operations).                            *)
(***************************************************************************)
RECURSIVE SumInts(_)
SumInts(s) == IF Len(s) = 0 THEN 0 ELSE s[1] + SumInts(Tail(s))

RECURSIVE SumF(_)
SumF(s) == IF Len(s) = 0 THEN Num(0) ELSE FAdd(s[1], SumF(Tail(s)))

\* Series.cumsum()
CumSum(s) == [i \in 1..Len(s) |-> SumInts(SubSeq(s, 1, i))]

RECURSIVE MaxInts(_)
MaxInts(s) == IF Len(s) = 1 THEN s[1] ELSE Max2(s[1], MaxInts(Tail(s)))

RECURSIVE MinInts(_)
MinInts(s) == IF Len(s) = 1 THEN s[1] ELSE Min2(s[1], MinInts(Tail(s)))

\* Series.cummax()
CumMax(s) == [i \in 1..Len(s) |-> MaxInts(SubSeq(s, 1, i))]

\* Series.shift(1): the first entry becomes NaN
Shift1(s) == [i \in 1..Len(s) |-> IF i = 1 THEN NaN ELSE Num(s[i - 1])]

\* Series.replace(0, np.nan)
ReplaceZeroNaN(s) ==
    [i \in 1..Len(s) |-> IF IsNum(s[i]) /\ s[i].n = 0 THEN NaN ELSE s[i]]

\* Series.fillna(0.0)
FillNa0(s) == [i \in 1..Len(s) |-> IF IsNaN(s[i]) THEN Num(0) ELSE s[i]]

(***************************************************************************)
(* compute_series                                                          *)
(***************************************************************************)
\* the SeriesPack dataclass, with the exception the call raised ("none" if
\* it returned)
SeriesPack(dates, pnl, equity, hwm, drawdown, returns) ==
    [raised |-> "none", dates |-> dates, pnl |-> pnl, equity |-> equity,
     hwm |-> hwm, drawdown |-> drawdown, returns |-> returns]

NoPack(why) ==
    [raised |-> why, dates |-> <<>>, pnl |-> <<>>, equity |-> <<>>,
     hwm |-> <<>>, drawdown |-> <<>>, returns |-> <<>>]

HasColumn(c) == \E j \in 1..Len(Columns) : Columns[j] = c

\* df[products].sum(axis=1): one term per entry of the list
RECURSIVE RowSum(_, _)
RowSum(row, products) ==
    IF Len(products) = 0 THEN 0
    ELSE row[products[1]] + RowSum(row, Tail(products))

\* slip: only the first selected column is read
AggregatePnl_FirstOnly(table, products) ==
    IF Len(products) = 0
    THEN [i \in 1..Len(table) |-> 0]
    ELSE [i \in 1..Len(table) |-> table[i][products[1]]]

\* slip: an empty selection is taken to mean every column
AggregatePnl_EmptyIsAll(table, products) ==
    IF Len(products) = 0
    THEN [i \in 1..Len(table) |-> RowSum(table[i], Columns)]
    ELSE [i \in 1..Len(table) |-> RowSum(table[i], products)]

AggregatePnl(table, products) ==
    IF Len(products) = 0
    THEN [i \in 1..Len(table) |-> 0]
    ELSE [i \in 1..Len(table) |-> RowSum(table[i], products)]

Equity(pnl) == CumSum(pnl)

\* slip: the high-water mark floored at zero (the variant the source has
\* commented out)
Hwm_FloorZero(equity) ==
    CumMax([i \in 1..Len(equity) |-> Max2(equity[i], 0)])

Hwm(equity) == CumMax(equity)

\* slip: zero prior equity is not replaced by NaN
PrevEq_NoReplace(equity) == Shift1(equity)

PrevEq(equity) == ReplaceZeroNaN(Shift1(equity))

\* slip: the NaN of the first period is left in
Returns_NoFillna(pnl, equity) ==
    LET prev_eq == PrevEq(equity)
    IN  [i \in 1..Len(pnl) |-> FDiv(Num(pnl[i]), prev_eq[i])]

\* slip: NaN periods are dropped instead of filled
Returns_DropNa(pnl, equity) ==
    LET prev_eq == PrevEq(equity)
        raw == [i \in 1..Len(pnl) |-> FDiv(Num(pnl[i]), prev_eq[i])]
    IN  SelectSeq(raw, LAMBDA x : x.k # "nan")

Returns(pnl, equity) ==
    LET prev_eq == PrevEq(equity)
    IN  FillNa0([i \in 1..Len(pnl) |-> FDiv(Num(pnl[i]), prev_eq[i])])

\* slip: the difference taken the other way round
Drawdown_Flipped(equity, hwm) == [i \in 1..Len(equity) |-> hwm[i] - equity[i]]

Drawdown(equity, hwm) == [i \in 1..Len(equity) |-> equity[i] - hwm[i]]

compute_series(table, products) ==
    IF \E j \in 1..Len(products) : ~HasColumn(products[j])
    THEN NoPack("KeyError")
    ELSE LET dates  == [i \in 1..Len(table) |-> table[i].date]
             pnl    == AggregatePnl(table, products)
             equity == Equity(pnl)
             hwm    == Hwm(equity)
             rets   == Returns(pnl, equity)
             dd     == Drawdown(equity, hwm)
         IN  SeriesPack(dates, pnl, equity, hwm, dd, rets)

(***************************************************************************)
(* compute_metrics: the statistics                                         *)
(***************************************************************************)
\* config.py has no say here: the factor is fixed, whatever the dates
annualize_factor_from_dates(dates) == 252

\* rf_period = (1.0 + rf_annual) ** (1.0 / ann) - 1.0, as float64 has it
RfPeriod(rf) == IF rf.k = "tiny" THEN Num(0) ELSE Rat(rf.n, rf.d)

IntsToF(s) == [i \in 1..Len(s) |-> Num(s[i])]

\* Series.mean(): NaN for an empty series
FMean(s) == IF Len(s) = 0 THEN NaN ELSE FDiv(SumF(s), Num(Len(s)))

\* the sample variance (ddof = 1) of the values as real numbers; NaN for
\* fewer than two
SampleVar(s) ==
    IF Len(s) < 2 THEN NaN
    ELSE LET m == FMean(s)
             sq == [i \in 1..Len(s) |-> FMul(FSub(s[i], m), FSub(s[i], m))]
         IN  FDiv(SumF(sq), Num(Len(s) - 1))

\* a positive double below 1e-14 that float64 rounding leaves where the
\* exact value is 0
Tiny == [k |-> "tiny", n |-> 1, d |-> 1]

\* whether the float64 mean of count copies of the double x differs from x.
\* The sum is taken left to right and divided by count: two copies, and any
\* number of copies of a whole number or of 0, give x back exactly; three
\* copies of 0.1 sum to 0.30000000000000004 and average
\* 0.10000000000000002.  x is the double the code holds where the model
\* holds n/d: a constant return of 0, 1/10 or 1/2 of either sign less the
\* rf_period of a rate of RfRates, in up to four copies; of these the mean
\* moves for three copies of 0.1, of 0.1 - 0.010000000000000009 = 0.09 and
\* of 0.1 + 0.010000000000000009 = 0.11000000000000001, and their negatives.
MeanDrifts(x, count) ==
    /\ count = 3
    /\ <<Abs(x.n), x.d>> \in { <<1, 10>>, <<9, 100>>, <<11, 100>> }

\* Series.var(ddof=1) as pandas computes it, in two passes: the mean, then
\* the squared deviations from it over n - 1; NaN for fewer than two
\* observations.  For values that differ the result is the sample variance
\* up to rounding; for equal values it is 0.0 unless the mean drifts away
\* from them, and then a rounding residue (three times 0.1 gives a
\* deviation of 1.6996749443881478e-17).
FVar(s) ==
    IF Len(s) < 2 THEN NaN
    ELSE IF /\ \A i \in 1..Len(s) : s[i] = s[1]
            /\ IsNum(s[1])
            /\ MeanDrifts(s[1], Len(s))
         THEN Tiny
    ELSE SampleVar(s)

\* sp.pnl[sp.pnl > 0]
RECURSIVE Wins(_)
Wins(pnl) ==
    IF Len(pnl) = 0 THEN <<>>
    ELSE IF pnl[1] > 0 THEN <<pnl[1]>> \o Wins(Tail(pnl))
    ELSE Wins(Tail(pnl))

\* sp.pnl[sp.pnl < 0]
RECURSIVE Losses(_)
Losses(pnl) ==
    IF Len(pnl) = 0 THEN <<>>
    ELSE IF pnl[1] < 0 THEN <<pnl[1]>> \o Losses(Tail(pnl))
    ELSE Losses(Tail(pnl))

\* ex = rets - rf_period
Excess(pack, rf) ==
    [i \in 1..Len(pack.returns) |-> FSub(pack.returns[i], RfPeriod(rf))]

MeanR(ex) == FMean(ex)

\* std_r squared; std_r = 0.0 when len(ex) <= 1
VarR(ex) == IF Len(ex) > 1 THEN FVar(ex) ELSE Num(0)

\* downside = ex.where(ex < 0.0, 0.0)
Downside(ex) ==
    [i \in 1..Len(ex) |-> IF FLess(ex[i], Num(0)) THEN ex[i] ELSE Num(0)]

\* downside_std squared: the population mean of downside**2, 0.0 if empty
DownsideMeanSq(ex) ==
    LET downside == Downside(ex)
    IN  IF Len(ex) > 0
        THEN FMean([i \in 1..Len(ex) |-> FMul(downside[i], downside[i])])
        ELSE Num(0)

\* (mean / (dev + eps)) * sqrt(ann), from dev squared
RatioSqrt(mean, devsq, ann) ==
    LET q == FDiv(FMul(FMul(mean, mean), Num(ann)), devsq)
    IN  IF IsNum(mean) /\ IsNum(q)
        THEN [k |-> "sqrt", n |-> Sign(mean.n) * q.n, d |-> q.d]
        ELSE NaN

\* with a rounding residue for std_r the quotient is mean_r over about eps
SharpeOf(mean_r, var_r, ann) ==
    IF var_r.k = "tiny" THEN [k |-> "real", n |-> 0, d |-> 1]
    ELSE IF FLess(Num(0), var_r) THEN RatioSqrt(mean_r, var_r, ann)
    ELSE NaN

Sharpe(ex, ann) ==
    SharpeOf(MeanR(ex), VarR(ex), ann)

Sortino(ex, ann) ==
    LET downside_sq == DownsideMeanSq(ex)
    IN  IF FLess(Num(0), downside_sq)
        THEN RatioSqrt(MeanR(ex), downside_sq, ann)
        ELSE NaN

\* slip: std_r >= 0 instead of std_r > 0
Volatility_Geq(ex, ann) ==
    LET var_r == VarR(ex)
    IN  IF var_r.k = "tiny" THEN var_r
        ELSE IF ~FLess(var_r, Num(0)) /\ ~IsNaN(var_r)
        THEN FSqrt(FMul(var_r, Num(ann)))
        ELSE NaN

\* a rounding residue times sqrt(ann) is still one, and prints as 0.00%
VolatilityOf(var_r, ann) ==
    IF var_r.k = "tiny" THEN var_r
    ELSE IF FLess(Num(0), var_r) THEN FSqrt(FMul(var_r, Num(ann)))
    ELSE NaN

Volatility(ex, ann) == VolatilityOf(VarR(ex), ann)

\* slip: the largest drawdown value instead of the least
MaxDD_Max(pack) ==
    IF Len(pack.drawdown) # 0 THEN Num(MaxInts(pack.drawdown)) ELSE NaN

MaxDD(pack) ==
    IF Len(pack.drawdown) # 0 THEN Num(MinInts(pack.drawdown)) ELSE NaN

TotalPnl(pack) == IF Len(pack.pnl) # 0 THEN Num(SumInts(pack.pnl)) ELSE Num(0)

\* what Series.iloc[...] raises on an empty series
IndexError == [k |-> "IndexError", n |-> 0, d |-> 1]

\* Series.iloc[i] (i counted from 1 here)
Iloc(s, i) == IF i \in 1..Len(s) THEN Num(s[i]) ELSE IndexError

\* init = equity.iloc[0] - pnl.iloc[0], guarded by len(sp.equity)
InitCapital(pack) ==
    IF Len(pack.equity) # 0
    THEN LET e0 == Iloc(pack.equity, 1)
             p0 == Iloc(pack.pnl, 1)
         IN  IF e0 = IndexError \/ p0 = IndexError THEN IndexError
             ELSE FSub(e0, p0)
    ELSE NaN

\* final_eq = equity.iloc[-1], guarded by len(sp.equity)
FinalEq(pack) ==
    IF Len(pack.equity) # 0 THEN Iloc(pack.equity, Len(pack.equity)) ELSE NaN

\* days from a fixed origin to a calendar date <<year, month, day>>
DayNumber(date) ==
    LET y == date[1]
        before[m \in 0..12] ==
            IF m = 0 THEN 0
            ELSE before[m - 1]
                 + (IF m = 2
                    THEN (IF (y % 4 = 0 /\ y % 100 # 0) \/ y % 400 = 0 THEN 29 ELSE 28)
                    ELSE IF m \in {4, 6, 9, 11} THEN 30 ELSE 31)
    IN  365 * y + ((y - 1) \div 4) - ((y - 1) \div 100) + ((y - 1) \div 400)
        + before[date[2] - 1] + date[3]

\* what a float power raises when the result exceeds the largest double
OverflowError == [k |-> "OverflowError", n |-> 0, d |-> 1]

\* a / b > c / d for b, d > 0 and a, c >= 0, by whole parts and remainders,
\* so that no product is formed
RECURSIVE FracGreater(_, _, _, _)
FracGreater(a, b, c, d) ==
    IF a \div b # c \div d THEN a \div b > c \div d
    ELSE IF a % b = 0 THEN FALSE
    ELSE IF c % d = 0 THEN TRUE
    ELSE FracGreater(d, c % d, b, a % b)

\* whether base ** (1.0 / max(days / 365.25, 1e-9)) exceeds the largest
\* double, 1.797e308, for a positive rational base: the power raises when
\* base > 6.98160727707 ** days, and over a span of zero days or less, where
\* the exponent is 1e9, when base > 1.00000070978.  The quotient
\* final_eq / init is rounded to a double before the power is taken, so a
\* ratio up to half a unit in the last place above the greatest double
\* whose power is finite still has one.  limits[days + 1] is the greatest
\* ratio of two 32-bit integers for which the power is a double; from
\* twelve days on every such ratio has one.
PowOverflows(base, days) ==
    LET span   == IF days < 0 THEN 0 ELSE days
        limits == << <<903093603, 903092962>>, <<841274524, 120498689>>,
                     <<2122261945, 43539973>>, <<1363105217, 4005559>>,
                     <<1984438421, 835249>>, <<1821341084, 109803>>,
                     <<2133153557, 18420>>, <<1132729066, 1401>>,
                     <<2077261365, 368>>, <<2128102297, 54>>,
                     <<1375701341, 5>>, <<1920921298, 1>> >>
    IN  /\ span < Len(limits)
        /\ FracGreater(base.n, base.d, limits[span + 1][1], limits[span + 1][2])

\* whether the power is a double but a hundred times cagr is not: then
\* fmt_pct prints "inf%".  The limits are 6.89413389846 ** days, and
\* 1.00000070518 for a span of zero days or less; limits[days + 1] is the
\* greatest ratio of two 32-bit integers that prints a finite percentage,
\* the quotient being rounded as in PowOverflows.
PctOverflows(base, days) ==
    LET span   == IF days < 0 THEN 0 ELSE days
        limits == << <<579995986, 579995577>>, <<609002039, 88336265>>,
                     <<2031190072, 42735731>>, <<1137009547, 3469964>>,
                     <<279074029, 123538>>, <<1803057633, 115774>>,
                     <<1016997707, 9472>>, <<531474513, 718>>,
                     <<1699346518, 333>>, <<1301724715, 37>>,
                     <<970190755, 4>>, <<1672156243, 1>> >>
    IN  /\ ~PowOverflows(base, days)
        /\ span < Len(limits)
        /\ FracGreater(base.n, base.d, limits[span + 1][1], limits[span + 1][2])

\* slip: a start of zero counts as positive capital
Cagr_ZeroStart(pack) ==
    IF /\ ~FLess(InitCapital(pack), Num(0))
       /\ FLess(Num(0), FinalEq(pack))
       /\ Len(pack.dates) > 1
    THEN [k |-> "real", n |-> 0, d |-> 1]
    ELSE NaN

\* defined only with a positive implied start, a positive end and two dates;
\* the value is the fractional power (final_eq / init) ** (1 / years) - 1,
\* which the model does not compute; the power may overflow, and short of
\* that the value may be too large to be printed as a percentage
Cagr(pack) ==
    IF /\ FLess(Num(0), InitCapital(pack))
       /\ FLess(Num(0), FinalEq(pack))
       /\ Len(pack.dates) > 1
    THEN IF PowOverflows(FDiv(FinalEq(pack), InitCapital(pack)),
                         DayNumber(pack.dates[Len(pack.dates)])
                             - DayNumber(pack.dates[1]))
         THEN OverflowError
         ELSE IF PctOverflows(FDiv(FinalEq(pack), InitCapital(pack)),
                              DayNumber(pack.dates[Len(pack.dates)])
                                  - DayNumber(pack.dates[1]))
         THEN [k |-> "huge", n |-> 0, d |-> 1]
         ELSE [k |-> "real", n |-> 0, d |-> 1]
    ELSE NaN

\* cagr / abs(max_dd): the drawdowns of the model are whole numbers, so a
\* max_dd below zero is -1 or less and the quotient of a real or huge cagr
\* is a double
Calmar(pack) ==
    IF ~IsNaN(Cagr(pack)) /\ FLess(MaxDD(pack), Num(0))
    THEN [k |-> "real", n |-> 0, d |-> 1]
    ELSE NaN

HitRate(pack) ==
    IF Len(pack.pnl) # 0 THEN Rat(Len(Wins(pack.pnl)), Len(pack.pnl)) ELSE NaN

AvgWin(pack) ==
    IF Len(Wins(pack.pnl)) > 0 THEN FMean(IntsToF(Wins(pack.pnl))) ELSE NaN

AvgLoss(pack) ==
    IF Len(Losses(pack.pnl)) > 0 THEN FMean(IntsToF(Losses(pack.pnl))) ELSE NaN

SumWin(pack) == IF Len(Wins(pack.pnl)) > 0 THEN SumInts(Wins(pack.pnl)) ELSE 0

SumLoss(pack) == IF Len(Losses(pack.pnl)) > 0 THEN SumInts(Losses(pack.pnl)) ELSE 0

\* slip: undefined without a winning period as well
ProfitFactor_NeedsWins(pack) ==
    IF SumLoss(pack) < 0 /\ SumWin(pack) > 0
    THEN Rat(SumWin(pack), Abs(SumLoss(pack)))
    ELSE NaN

ProfitFactor(pack) ==
    IF SumLoss(pack) < 0 THEN Rat(SumWin(pack), Abs(SumLoss(pack))) ELSE NaN

\* the streak loop over below = (equity < hwm): <<max_dur, cur>> after i bars
RECURSIVE DurLoop(_, _)
DurLoop(pack, i) ==
    IF i = 0 THEN <<0, 0>>
    ELSE LET prev == DurLoop(pack, i - 1)
         IN  IF pack.equity[i] < pack.hwm[i]
             THEN <<Max2(prev[1], prev[2] + 1), prev[2] + 1>>
             ELSE <<prev[1], 0>>

\* slip: the streak still running at the end instead of the longest one
MaxDur_Last(pack) == DurLoop(pack, Len(pack.equity))[2]

MaxDur(pack) == DurLoop(pack, Len(pack.equity))[1]

Expectancy(pack) ==
    IF Len(pack.pnl) # 0 THEN FMean(IntsToF(pack.pnl)) ELSE NaN

BestDay(pack) == IF Len(pack.pnl) # 0 THEN Num(MaxInts(pack.pnl)) ELSE NaN

WorstDay(pack) == IF Len(pack.pnl) # 0 THEN Num(MinInts(pack.pnl)) ELSE NaN

\* s in non-decreasing order
RECURSIVE SortInts(_)
SortInts(s) ==
    IF Len(s) = 0 THEN <<>>
    ELSE LET m == MinInts(s)
             j == CHOOSE i \in 1..Len(s) : s[i] = m
         IN  <<m>> \o SortInts(SubSeq(s, 1, j - 1) \o SubSeq(s, j + 1, Len(s)))

MedianPnl(pack) ==
    IF Len(pack.pnl) = 0 THEN NaN
    ELSE LET s == SortInts(pack.pnl)
             n == Len(s)
         IN  IF n % 2 = 1 THEN Num(s[(n + 1) \div 2])
             ELSE Rat(s[n \div 2] + s[n \div 2 + 1], 2)

StdPnl(pack) ==
    IF Len(pack.pnl) > 1 THEN FSqrt(FVar(IntsToF(pack.pnl))) ELSE NaN

\* Series.skew(): NaN below 3 observations, 0 with no spread (a second
\* moment below 1e-14 is set to 0 before the division, a rounding residue
\* with it)
Skew(ex) ==
    LET m2 == SampleVar(ex)
    IN  IF Len(ex) = 0 \/ Len(ex) < 3 THEN NaN
        ELSE IF ~IsNum(m2) THEN NaN
        ELSE IF m2.n = 0 THEN Num(0)
        ELSE [k |-> "real", n |-> 0, d |-> 1]

\* Series.kurt(): NaN below 4 observations, 0 with no spread
Kurt(ex) ==
    LET m2 == SampleVar(ex)
    IN  IF Len(ex) = 0 \/ Len(ex) < 4 THEN NaN
        ELSE IF ~IsNum(m2) THEN NaN
        ELSE IF m2.n = 0 THEN Num(0)
        ELSE [k |-> "real", n |-> 0, d |-> 1]

(***************************************************************************)
(* compute_metrics: monthly returns                                        *)
(*   eq_series.resample("M").last().pct_change().dropna()                  *)
(* with pct_change padding forward over empty months before dividing.      *)
(***************************************************************************)
MonthOf(date) == date[1] * 12 + date[2] - 1

\* the last equity of calendar month m, NaN for a month without rows
RECURSIVE LastInMonth(_, _, _)
LastInMonth(pack, m, i) ==
    IF i = 0 THEN NaN
    ELSE IF MonthOf(pack.dates[i]) = m THEN Num(pack.equity[i])
    ELSE LastInMonth(pack, m, i - 1)

\* one bin per calendar month from the first date's to the last date's
MonthEndEquity(pack) ==
    IF Len(pack.dates) = 0 THEN <<>>
    ELSE LET first == MonthOf(pack.dates[1])
             last  == MonthOf(pack.dates[Len(pack.dates)])
         IN  [b \in 1..(last - first + 1) |->
                 LastInMonth(pack, first + b - 1, Len(pack.dates))]

RECURSIVE Pad(_)
Pad(s) ==
    IF Len(s) <= 1 THEN s
    ELSE LET front == Pad(SubSeq(s, 1, Len(s) - 1))
             x == s[Len(s)]
         IN  Append(front, IF IsNaN(x) THEN front[Len(front)] ELSE x)

PctChange(s) ==
    LET data == Pad(s)
    IN  [i \in 1..Len(s) |->
            IF i = 1 THEN NaN ELSE FSub(FDiv(data[i], data[i - 1]), Num(1))]

RECURSIVE DropNa(_)
DropNa(s) ==
    IF Len(s) = 0 THEN <<>>
    ELSE IF IsNaN(s[1]) THEN DropNa(Tail(s))
    ELSE <<s[1]>> \o DropNa(Tail(s))

MonthlyRet(pack) == DropNa(PctChange(MonthEndEquity(pack)))

AvgMonthlyRet(pack) ==
    LET monthly_ret == MonthlyRet(pack)
    IN  IF Len(monthly_ret) # 0 THEN FMean(monthly_ret) ELSE NaN

MonthlyRetVol(pack) ==
    LET monthly_ret == MonthlyRet(pack)
    IN  IF Len(monthly_ret) > 1 THEN FSqrt(FVar(monthly_ret)) ELSE NaN

(***************************************************************************)
(* compute_metrics: formatting and the report                              *)
(***************************************************************************)
\* the undefined marker
Dash == [fmt |-> "dash", k |-> "nan", n |-> 0, d |-> 1]

Fmt(kind, x) ==
    IF IsNaN(x) THEN Dash ELSE [fmt |-> kind, k |-> x.k, n |-> x.n, d |-> x.d]

\* f"{x*100:,.2f}%": the hundredfold of a huge value is infinite
fmt_pct(x) == IF x.k = "huge" THEN Fmt("pct", Inf(1)) ELSE Fmt("pct", x)

fmt_num(x) == Fmt("num", x)

fmt_cash(x) == Fmt("cash", x)

\* f"{i:d}"
fmt_int(i) == [fmt |-> "int", k |-> "num", n |-> i, d |-> 1]

Row(name, value) == [Metric |-> name, Value |-> value]

MetricRows(pack, rf) ==
    LET ann == annualize_factor_from_dates(pack.dates)
        ex  == Excess(pack, rf)
    IN << Row("Total PnL", fmt_cash(TotalPnl(pack))),
          Row("Final Equity", fmt_cash(FinalEq(pack))),
          Row("CAGR", fmt_pct(Cagr(pack))),
          Row("Volatility", fmt_pct(Volatility(ex, ann))),
          Row("Sharpe", fmt_num(Sharpe(ex, ann))),
          Row("Sortino", fmt_num(Sortino(ex, ann))),
          Row("Max Drawdown", fmt_pct(MaxDD(pack))),
          Row("Calmar", fmt_num(Calmar(pack))),
          Row("Hit Rate", fmt_pct(HitRate(pack))),
          Row("Profit Factor", fmt_num(ProfitFactor(pack))),
          Row("Avg Win", fmt_cash(AvgWin(pack))),
          Row("Avg Loss", fmt_cash(AvgLoss(pack))),
          Row("Best Day PnL", fmt_cash(BestDay(pack))),
          Row("Worst Day PnL", fmt_cash(WorstDay(pack))),
          Row("Median Daily PnL", fmt_cash(MedianPnl(pack))),
          Row("Std Daily PnL", fmt_cash(StdPnl(pack))),
          Row("Avg Monthly Return", fmt_pct(AvgMonthlyRet(pack))),
          Row("Monthly Return Vol", fmt_pct(MonthlyRetVol(pack))),
          Row("Skew (returns)", fmt_num(Skew(ex))),
          Row("Kurtosis (returns)", fmt_num(Kurt(ex))),
          Row("Expectancy (per day)", fmt_cash(Expectancy(pack))),
          Row("Max DD Duration (bars)", fmt_int(MaxDur(pack))),
          Row("Annualization", fmt_int(ann)) >>

\* slip: an empty series returns early with no rows
compute_metrics_EmptyShortcut(pack, rf) ==
    IF Len(pack.equity) = 0
    THEN [raised |-> "none", rows |-> <<>>]
    ELSE [raised |-> "none", rows |-> MetricRows(pack, rf)]

\* the report, or the exception an unguarded .iloc or the power of the
\* CAGR raised
compute_metrics(pack, rf) ==
    IF InitCapital(pack) = IndexError \/ FinalEq(pack) = IndexError
    THEN [raised |-> "IndexError", rows |-> <<>>]
    ELSE IF Cagr(pack) = OverflowError
    THEN [raised |-> "OverflowError", rows |-> <<>>]
    ELSE [raised |-> "none", rows |-> MetricRows(pack, rf)]

(***************************************************************************)
(* The state machine: a table is loaded, then the pure functions are       *)
(* applied to it.                                                          *)
(***************************************************************************)
NoReport == [raised |-> "notrun", rows |-> <<>>]

\* increasing sub-sequences of DatePool, as sets of positions
DateChoices == {S \in SUBSET (1..Len(DatePool)) : Cardinality(S) <= MaxRows}

\* the k-th smallest element of a set of integers
RECURSIVE Kth(_, _)
Kth(S, k) ==
    LET m == CHOOSE x \in S : \A y \in S : x <= y
    IN  IF k = 1 THEN m ELSE Kth(S \ {m}, k - 1)

Tables ==
    UNION { { [i \in 1..Cardinality(S) |->
                 [date |-> DatePool[Kth(S, i)], A |-> a[i], B |-> b[i], D |-> d[i]]]
              : a \in [1..Cardinality(S) -> PnlVals.A],
                b \in [1..Cardinality(S) -> PnlVals.B],
                d \in [1..Cardinality(S) -> PnlVals.D] }
            : S \in DateChoices }

\* a filter call that was not made
NoView == [raised |-> "notrun", key |-> "All", rows |-> <<>>]

\* a table or a chart that was not built
NoTable == [raised |-> "notrun", columns |-> <<>>, rows |-> <<>>]

NoFig == [raised |-> "notrun", window |-> 0, traces |-> <<>>]

\* the variables of the operations a behaviour does not exercise
RangeIdle == range_key = "All" /\ filtered = NoView /\ visited = <<>>

ViewIdle == metrics_table = NoTable /\ fig = NoFig

ThreadsIdle == th = <<>>

\* no page is served
UiIdle == ui = <<>>

Init ==
    /\ df \in Tables
    /\ sp = NoPack("notrun")
    /\ report = NoReport
    /\ selected = <<>>
    /\ rf_annual = DEFAULT_RF
    /\ pc = "loaded"
    /\ RangeIdle /\ ViewIdle /\ ThreadsIdle /\ UiIdle

ComputeSeries ==
    /\ pc = "loaded"
    /\ \E sel \in Selections :
          /\ selected' = sel
          /\ sp' = compute_series(df, sel)
    /\ pc' = "series"
    /\ UNCHANGED <<df, report, rf_annual>>
    /\ UNCHANGED <<rangeVars, viewVars, th, ui>>

\* a caller goes on to compute_metrics only if compute_series returned
ComputeMetrics ==
    /\ pc = "series"
    /\ sp.raised = "none"
    /\ \E rf \in RfRates :
          /\ rf_annual' = rf
          /\ report' = compute_metrics(sp, rf)
    /\ pc' = "metrics"
    /\ UNCHANGED <<df, sp, selected>>
    /\ UNCHANGED <<rangeVars, viewVars, th, ui>>

Next == ComputeSeries \/ ComputeMetrics

Spec == Init /\ [][Next]_vars

(***************************************************************************)
(* filter_df_by_range and next_range_key (analytics.py 72-107).            *)
(* A date is <<year, month, day>>; the tables of the code hold midnight    *)
(* timestamps, so comparing dates is comparing these triples.              *)
(***************************************************************************)
RANGE_OPTIONS == <<"1M", "3M", "YTD", "1Y", "All">>

\* Python's None handed as a range key
None == "<None>"

\* `value or "All"`: None and the empty string are falsy
OrAll(value) == IF value \in {None, ""} THEN "All" ELSE value

DaysInMonth(y, m) ==
    IF m = 2
    THEN (IF (y % 4 = 0 /\ y % 100 # 0) \/ y % 400 = 0 THEN 29 ELSE 28)
    ELSE IF m \in {4, 6, 9, 11} THEN 30 ELSE 31

\* date - pd.DateOffset(months=k): the month moves back by k and the day is
\* clipped to the length of the month arrived at; DateOffset(years=1) is
\* the same with k = 12 (29 February goes to 28 February)
MinusMonths(date, k) ==
    LET t == date[1] * 12 + (date[2] - 1) - k
        y == t \div 12
        m == (t % 12) + 1
    IN  <<y, m, Min2(date[3], DaysInMonth(y, m))>>

DateLeq(a, b) ==
    \/ a[1] < b[1]
    \/ a[1] = b[1] /\ a[2] < b[2]
    \/ a[1] = b[1] /\ a[2] = b[2] /\ a[3] <= b[3]

\* dates.max() of a non-empty table
MaxDate(rows) ==
    LET i == CHOOSE i \in 1..Len(rows) :
                 \A j \in 1..Len(rows) : DateLeq(rows[j].date, rows[i].date)
    IN  rows[i].date

\* the start of the window that ends at `end`
RangeStart(key, end) ==
    CASE key = "1M"  -> MinusMonths(end, 1)
      [] key = "3M"  -> MinusMonths(end, 3)
      [] key = "YTD" -> <<end[1], 1, 1>>
      [] key = "1Y"  -> MinusMonths(end, 12)

\* slip: the start of the window excluded
InRange_OpenStart(d, start, end) == ~DateLeq(d, start) /\ DateLeq(d, end)

\* slip: the end of the window excluded
InRange_OpenEnd(d, start, end) == DateLeq(start, d) /\ ~DateLeq(end, d)

\* mask = (dates >= start) & (dates <= end)
InRange(d, start, end) == DateLeq(start, d) /\ DateLeq(d, end)

\* slip: the window is open at its end, so the latest row is cut away
filter_df_by_range_OpenEnd(rows, key) ==
    IF Len(rows) = 0 THEN rows
    ELSE LET k == OrAll(key)
         IN  IF k = "All" THEN rows
             ELSE IF k \notin {"1M", "3M", "YTD", "1Y"} THEN rows
             ELSE LET end   == MaxDate(rows)
                      start == RangeStart(k, end)
                      Mask(row) == DateLeq(start, row.date) /\ row.date # end
                      kept  == SelectSeq(rows, Mask)
                  IN  IF kept # <<>> THEN kept ELSE rows

filter_df_by_range(rows, key) ==
    IF Len(rows) = 0 THEN rows
    ELSE LET k == OrAll(key)
         IN  IF k = "All" THEN rows
             ELSE IF k \notin {"1M", "3M", "YTD", "1Y"} THEN rows
             ELSE LET end   == MaxDate(rows)
                      start == RangeStart(k, end)
                      Mask(row) == InRange(row.date, start, end)
                      kept  == SelectSeq(rows, Mask)
                  IN  IF kept # <<>> THEN kept ELSE rows

\* slip: an unrecognized key starts from the first option
next_range_key_UnknownFirst(current) ==
    LET value == OrAll(current)
        \* RANGE_OPTIONS.index(value), counted from 0
        idx == IF \E i \in 1..Len(RANGE_OPTIONS) : RANGE_OPTIONS[i] = value
               THEN (CHOOSE i \in 1..Len(RANGE_OPTIONS) :
                         RANGE_OPTIONS[i] = value) - 1
               ELSE 0
    IN  RANGE_OPTIONS[((idx + 1) % Len(RANGE_OPTIONS)) + 1]

next_range_key(current) ==
    LET value == OrAll(current)
        \* RANGE_OPTIONS.index(value), counted from 0
        idx == IF \E i \in 1..Len(RANGE_OPTIONS) : RANGE_OPTIONS[i] = value
               THEN (CHOOSE i \in 1..Len(RANGE_OPTIONS) :
                         RANGE_OPTIONS[i] = value) - 1
               ELSE Len(RANGE_OPTIONS) - 1
    IN  RANGE_OPTIONS[((idx + 1) % Len(RANGE_OPTIONS)) + 1]

(***************************************************************************)
(* The range machine: a panel holds a range key; the key is cycled by      *)
(* next_range_key and the panel's table is cut by filter_df_by_range.      *)
(***************************************************************************)
\* clicks on the cycle control in one behaviour
MaxClicks == 5

\* dates of the range tables: month ends, a leap day and a year boundary
RangeDatePool ==
    << <<2023, 2, 28>>, <<2023, 3, 31>>, <<2023, 12, 31>>,
       <<2024, 1, 1>>, <<2024, 2, 29>>, <<2024, 3, 31>> >>

\* keys a caller may hand over: the options, None, "" and a foreign key
RangeKeys == {"1M", "3M", "YTD", "1Y", "All", None, "", "5Y"}

\* the tables over every subset of the dates, in date order; column A
\* numbers the row by its date
RangeTables ==
    { [i \in 1..Cardinality(S) |->
          [date |-> RangeDatePool[Kth(S, i)], A |-> Kth(S, i), B |-> 0, D |-> 1]]
      : S \in SUBSET (1..Len(RangeDatePool)) }

InitRange ==
    /\ df \in RangeTables
    /\ range_key \in RangeKeys
    /\ visited = <<range_key>>
    /\ filtered = NoView
    /\ pc = "range"
    /\ sp = NoPack("notrun") /\ report = NoReport
    /\ selected = <<>> /\ rf_annual = DEFAULT_RF
    /\ ViewIdle /\ ThreadsIdle /\ UiIdle

\* the panel's table is cut to the panel's range
FilterRange ==
    /\ pc = "range"
    /\ filtered' = [raised |-> "none", key |-> range_key,
                    rows |-> filter_df_by_range(df, range_key)]
    /\ UNCHANGED <<df, sp, report, selected, rf_annual, pc>>
    /\ UNCHANGED <<range_key, visited, viewVars, th, ui>>

\* a click on the cycle control
CycleRange ==
    /\ pc = "range"
    /\ Len(visited) <= MaxClicks
    /\ range_key' = next_range_key(range_key)
    /\ visited' = Append(visited, range_key')
    /\ UNCHANGED <<df, sp, report, selected, rf_annual, pc>>
    /\ UNCHANGED <<filtered, viewVars, th, ui>>

NextRange == FilterRange \/ CycleRange

SpecRange == InitRange /\ [][NextRange]_vars

(***************************************************************************)
(* Concurrent callers of the three functions of analytics.py.  Each of two *)
(* threads calls filter_df_by_range(df, range_key), compute_series(view,   *)
(* products) and compute_metrics(sp, rf_annual) in turn, with the          *)
(* arguments the signatures declare, on one table both were handed.  The   *)
(* functions are run statement by statement: a step of a thread is one     *)
(* entry of Statements, and it reads the table as it is when the step      *)
(* runs.  A thread keeps its locals in a frame.  A local is either an      *)
(* object of its own or a view of the shared table: the result of          *)
(* filter_df_by_range where it is `return df`, and the dates of the pack,  *)
(* df["date"].  A view has no rows of its own; what it shows is read from  *)
(* the table whenever a statement, or the caller at the end, looks at it.  *)
(* These are not the requests of the page: update_dashboard, the caller    *)
(* callbacks.py has, hands compute_series a third argument after its       *)
(* filter calls and ends in TypeError there (see Call_compute_series).     *)
(***************************************************************************)
\* rows of the table the threads share
ThreadRows == 2

Threads == {1, 2}

\* slip: the aggregate is also stored in the table, df[products[0]] = pnl,
\* after line 29
Statements_PnlInPlace ==
    << [fn |-> "filter_df_by_range", lines |-> <<73, 96>>, binds |-> "mask",
        op |-> "compare", reads |-> <<"df">>],
       [fn |-> "filter_df_by_range", lines |-> <<97, 98>>, binds |-> "return",
        op |-> "loc_copy", reads |-> <<"df", "mask">>],
       [fn |-> "compute_series", lines |-> <<24, 24>>, binds |-> "dates",
        op |-> "getitem", reads |-> <<"df">>],
       [fn |-> "compute_series", lines |-> <<26, 29>>, binds |-> "pnl",
        op |-> "sum", reads |-> <<"df">>],
       [fn |-> "compute_series", lines |-> <<29, 29>>, binds |-> "df",
        op |-> "setitem", reads |-> <<"pnl">>],
       [fn |-> "compute_series", lines |-> <<31, 31>>, binds |-> "equity",
        op |-> "cumsum", reads |-> <<"pnl">>],
       [fn |-> "compute_series", lines |-> <<33, 33>>, binds |-> "hwm",
        op |-> "cummax", reads |-> <<"equity">>],
       [fn |-> "compute_series", lines |-> <<35, 35>>, binds |-> "prev_eq",
        op |-> "shift_replace", reads |-> <<"equity">>],
       [fn |-> "compute_series", lines |-> <<36, 36>>, binds |-> "rets",
        op |-> "div_fillna", reads |-> <<"pnl", "prev_eq">>],
       [fn |-> "compute_series", lines |-> <<39, 39>>, binds |-> "dd",
        op |-> "sub", reads |-> <<"equity", "hwm">>],
       [fn |-> "compute_series", lines |-> <<41, 41>>, binds |-> "return",
        op |-> "SeriesPack",
        reads |-> <<"dates", "pnl", "equity", "hwm", "dd", "rets">>],
       [fn |-> "compute_metrics", lines |-> <<119, 178>>, binds |-> "dates",
        op |-> "to_datetime", reads |-> <<"sp">>],
       [fn |-> "compute_metrics", lines |-> <<180, 211>>, binds |-> "return",
        op |-> "rows", reads |-> <<"sp", "dates">>] >>

\* the statements of the three functions in the order a call runs them:
\* the function and its lines, the name the statement binds ("return" for
\* the result of the call), the pandas operation that makes the object, and
\* the names it is made from.
\*   73-96   the early returns, dates = pd.to_datetime(df["date"]), end,
\*           start and mask = (dates >= start) & (dates <= end)
\*   97-98   filtered = df.loc[mask].copy(), returned unless it is empty
\*   24      dates = df["date"]
\*   26-29   pnl = pd.Series(np.zeros(len(df))) or df[products].sum(axis=1)
\*   31      equity = pnl.cumsum()
\*   33      hwm = equity.cummax()
\*   35      prev_eq = equity.shift(1).replace(0, np.nan)
\*   36      rets = (pnl / prev_eq).fillna(0.0)
\*   39      dd = equity - hwm
\*   41      return SeriesPack(dates=dates, pnl=pnl, ...)
\*   119-178 dates = pd.to_datetime(sp.dates) and the statistics of the
\*           pack's own Series, every one bound to a local of the call
\*   180-211 eq_series = pd.Series(sp.equity.values,
\*           index=pd.to_datetime(sp.dates)), monthly_ret and the rows
Statements ==
    << [fn |-> "filter_df_by_range", lines |-> <<73, 96>>, binds |-> "mask",
        op |-> "compare", reads |-> <<"df">>],
       [fn |-> "filter_df_by_range", lines |-> <<97, 98>>, binds |-> "return",
        op |-> "loc_copy", reads |-> <<"df", "mask">>],
       [fn |-> "compute_series", lines |-> <<24, 24>>, binds |-> "dates",
        op |-> "getitem", reads |-> <<"df">>],
       [fn |-> "compute_series", lines |-> <<26, 29>>, binds |-> "pnl",
        op |-> "sum", reads |-> <<"df">>],
       [fn |-> "compute_series", lines |-> <<31, 31>>, binds |-> "equity",
        op |-> "cumsum", reads |-> <<"pnl">>],
       [fn |-> "compute_series", lines |-> <<33, 33>>, binds |-> "hwm",
        op |-> "cummax", reads |-> <<"equity">>],
       [fn |-> "compute_series", lines |-> <<35, 35>>, binds |-> "prev_eq",
        op |-> "shift_replace", reads |-> <<"equity">>],
       [fn |-> "compute_series", lines |-> <<36, 36>>, binds |-> "rets",
        op |-> "div_fillna", reads |-> <<"pnl", "prev_eq">>],
       [fn |-> "compute_series", lines |-> <<39, 39>>, binds |-> "dd",
        op |-> "sub", reads |-> <<"equity", "hwm">>],
       [fn |-> "compute_series", lines |-> <<41, 41>>, binds |-> "return",
        op |-> "SeriesPack",
        reads |-> <<"dates", "pnl", "equity", "hwm", "dd", "rets">>],
       [fn |-> "compute_metrics", lines |-> <<119, 178>>, binds |-> "dates",
        op |-> "to_datetime", reads |-> <<"sp">>],
       [fn |-> "compute_metrics", lines |-> <<180, 211>>, binds |-> "return",
        op |-> "rows", reads |-> <<"sp", "dates">>] >>

\* what a pandas operation does to the object it is applied to: df[column]
\* and `return df` hand the object on ("view"); df[column] = value and the
\* methods called with inplace=True write into it ("store"); every other
\* operation leaves it as it is and builds an object of its own ("new")
Effect(op) ==
    CASE op \in {"getitem"}            -> "view"
      [] op \in {"setitem", "inplace"} -> "store"
      [] OTHER                         -> "new"

\* where a call of fn starts in Statements
FirstOf(fn) ==
    CHOOSE i \in 1..Len(Statements) :
        /\ Statements[i].fn = fn
        /\ \A j \in 1..(i - 1) : Statements[j].fn # fn

\* the position of a call that has run every statement
Returned == Len(Statements) + 1

\* the frame of a call that has not started: nothing is bound
Frame0 ==
    [pc |-> 1, alias |-> FALSE, view |-> <<>>, mask |-> <<>>,
     pnl |-> <<>>, equity |-> <<>>, hwm |-> <<>>, prev_eq |-> <<>>,
     rets |-> <<>>, dd |-> <<>>, sp |-> NoPack("notrun"), dates |-> <<>>,
     report |-> NoReport]

\* the rows the frame's DataFrame shows: those of the shared table where
\* filter_df_by_range returned its argument, else those of the copy
Shown(f, rows) == IF f.alias THEN rows ELSE f.view

\* the pack as its holder reads it: the dates are a view of the DataFrame
PackOf(f, rows) ==
    IF f.sp.raised # "none" THEN f.sp
    ELSE [f.sp EXCEPT !.dates =
             [i \in 1..Len(Shown(f, rows)) |-> Shown(f, rows)[i].date]]

\* df[column] = values
StoreColumn(rows, column, values) ==
    [i \in 1..Len(rows) |-> [rows[i] EXCEPT ![column] = values[i]]]

\* df.loc[mask]
Loc(rows, mask) ==
    LET kept == SelectSeq([i \in 1..Len(rows) |-> i], LAMBDA i : mask[i])
    IN  [j \in 1..Len(kept) |-> rows[kept[j]]]

\* the frame after statement s, rows being the shared table as it is when
\* the statement runs
ThreadStep(s, f, rows, key, products, rf) ==
    LET src  == Shown(f, rows)
        next == [f EXCEPT !.pc = f.pc + 1]
    IN  CASE s.op = "compare" ->
               IF Len(rows) = 0 \/ OrAll(key) \notin {"1M", "3M", "YTD", "1Y"}
               THEN [f EXCEPT !.pc = FirstOf("compute_series"), !.alias = TRUE]
               ELSE [next EXCEPT !.mask =
                        [i \in 1..Len(rows) |->
                            InRange(rows[i].date,
                                    RangeStart(OrAll(key), MaxDate(rows)),
                                    MaxDate(rows))]]
          [] s.op = "loc_copy" ->
               IF Len(Loc(rows, f.mask)) = 0
               THEN [next EXCEPT !.alias = TRUE]
               ELSE [next EXCEPT !.view = Loc(rows, f.mask)]
          [] s.op = "getitem" -> next
          [] s.op = "sum" -> [next EXCEPT !.pnl = AggregatePnl(src, products)]
          [] s.op = "setitem" ->
               IF f.alias \/ Len(products) = 0 THEN next
               ELSE [next EXCEPT !.view =
                        StoreColumn(f.view, products[1], f[s.reads[1]])]
          [] s.op = "cumsum" -> [next EXCEPT !.equity = Equity(f.pnl)]
          [] s.op = "cummax" -> [next EXCEPT !.hwm = Hwm(f.equity)]
          [] s.op = "shift_replace" -> [next EXCEPT !.prev_eq = PrevEq(f.equity)]
          [] s.op = "div_fillna" ->
               [next EXCEPT !.rets =
                   FillNa0([i \in 1..Len(f.pnl) |->
                               FDiv(Num(f.pnl[i]), f.prev_eq[i])])]
          [] s.op = "sub" -> [next EXCEPT !.dd = Drawdown(f.equity, f.hwm)]
          [] s.op = "SeriesPack" ->
               [next EXCEPT !.sp =
                   SeriesPack(<<>>, f.pnl, f.equity, f.hwm, f.dd, f.rets)]
          [] s.op = "to_datetime" ->
               [next EXCEPT !.dates = PackOf(f, rows).dates]
          [] s.op = "rows" ->
               LET early == compute_metrics([f.sp EXCEPT !.dates = f.dates], rf)
                   late  == compute_metrics(PackOf(f, rows), rf)
               IN  [next EXCEPT !.report =
                       [early EXCEPT !.rows =
                           [i \in 1..Len(early.rows) |->
                               IF early.rows[i].Metric \in
                                      {"Avg Monthly Return", "Monthly Return Vol"}
                               THEN late.rows[i]
                               ELSE early.rows[i]]]]

\* the shared table after statement s of a frame: a statement that stores
\* into the DataFrame writes the table where the frame's DataFrame is the
\* table itself
SharedTableAfter(s, f, rows, products) ==
    IF Effect(s.op) = "store" /\ s.binds = "df" /\ f.alias /\ Len(products) > 0
    THEN StoreColumn(rows, products[1], f[s.reads[1]])
    ELSE rows

\* the table holds the latest dates of the pool, up to ThreadRows of them:
\* "All" hands the table itself on, "1M" cuts every row but the last
InitThreads ==
    /\ df \in {t \in Tables :
                  /\ Len(t) <= ThreadRows
                  /\ \A i \in 1..Len(t) :
                        t[i].date = DatePool[Len(DatePool) - Len(t) + i]}
    /\ range_key \in {"All", "1M"}
    /\ selected \in {<<"A">>, <<"A", "B">>}
    /\ rf_annual = DEFAULT_RF
    /\ th = [t \in Threads |-> Frame0]
    /\ pc = "threads"
    /\ sp = NoPack("notrun") /\ report = NoReport
    /\ filtered = NoView /\ visited = <<>>
    /\ ViewIdle /\ UiIdle

\* thread t runs its next statement
Step(t) ==
    /\ pc = "threads"
    /\ th[t].pc # Returned
    /\ th' = [th EXCEPT ![t] = ThreadStep(Statements[th[t].pc], th[t], df,
                                         range_key, selected, rf_annual)]
    /\ df' = SharedTableAfter(Statements[th[t].pc], th[t], df, selected)
    /\ UNCHANGED <<sp, report, selected, rf_annual, pc, rangeVars, viewVars, ui>>

NextThreads == \E t \in Threads : Step(t)

SpecThreads == InitThreads /\ [][NextThreads]_vars

(***************************************************************************)
(* The metrics tables (callbacks.py 46-119): one display column per        *)
(* selection, each with the report of compute_series + compute_metrics.    *)
(* The builders and the two figure functions are called here as functions, *)
(* each on its own with arguments drawn from small sets.  Within the page  *)
(* they are steps of one callback, update_dashboard, which replaces an     *)
(* empty selection by ["ALL"] first (lines 790, 1013) and which ends in    *)
(* TypeError at its own three-argument call of compute_series (lines 853,  *)
(* 875, 1031, 1038) before it reaches a builder; that callback is not      *)
(* modelled.                                                               *)
(***************************************************************************)
DEFAULT_INITIAL_CAPITAL == 100

\* the baselines initial_capital_for_products / _for_strategies may supply
Capitals == {0, 50}

\* label of an instrument column; the labelling function is kept
\* uninterpreted
format_product_label(p) == <<"label", p>>

\* a call compute_series(*args): the function declares two parameters,
\* df and products, and a call with any other number of positional
\* arguments raises TypeError before the body runs
Call_compute_series(args) ==
    IF Len(args) # 2 THEN NoPack("TypeError")
    ELSE compute_series(args[1], args[2])

\* the body of the loop over display_columns: the report of one column
ColumnReport(rows, product_list, capital) ==
    LET initial_capital == IF capital <= 0 THEN DEFAULT_INITIAL_CAPITAL ELSE capital
        pack == Call_compute_series(<<rows, product_list, initial_capital>>)
    IN  IF pack.raised # "none"
        THEN [raised |-> pack.raised, rows |-> <<>>]
        ELSE compute_metrics(pack, DEFAULT_RF)

\* next((r["Value"] for r in metrics if r["Metric"] == metric), "—")
CellOf(metrics, metric) ==
    IF \E i \in 1..Len(metrics) : metrics[i].Metric = metric
    THEN metrics[CHOOSE i \in 1..Len(metrics) :
                     /\ metrics[i].Metric = metric
                     /\ \A j \in 1..(i - 1) : metrics[j].Metric # metric].Value
    ELSE Dash

\* columns and rows from the display columns [label, products]; the first
\* exception of the loop ends the call
AssembleTable(rows, display_columns, capital) ==
    LET n == Len(display_columns)
        reports == [i \in 1..n |->
                       ColumnReport(rows, display_columns[i].products, capital)]
    IN  IF \E i \in 1..n : reports[i].raised # "none"
        THEN [raised |-> reports[CHOOSE i \in 1..n :
                                    /\ reports[i].raised # "none"
                                    /\ \A j \in 1..(i - 1) : reports[j].raised = "none"].raised,
              columns |-> <<>>, rows |-> <<>>]
        ELSE LET first == IF n = 0 THEN <<>> ELSE reports[1].rows
             IN  [raised |-> "none",
                  columns |-> <<"Metric">> \o [i \in 1..n |-> display_columns[i].label],
                  rows |-> [j \in 1..Len(first) |->
                               [Metric |-> first[j].Metric,
                                cells |-> [i \in 1..n |->
                                              CellOf(reports[i].rows, first[j].Metric)]]]]

IsIn(x, s) == \E i \in 1..Len(s) : s[i] = x

build_metrics_table(rows, selected_products, all_products, capital) ==
    LET Valid(p) == IsIn(p, all_products)
        chosen == SelectSeq(selected_products, Valid)
    IN  AssembleTable(rows,
            IF IsIn("ALL", selected_products)
            THEN << [label |-> "All", products |-> all_products] >>
            ELSE [i \in 1..Len(chosen) |->
                     [label |-> format_product_label(chosen[i]),
                      products |-> <<chosen[i]>>]],
            capital)

build_portfolio_metrics_table(selected_strategies, all_strategies, rows, capital) ==
    LET Valid(s) == IsIn(s, all_strategies)
        chosen == SelectSeq(selected_strategies, Valid)
    IN  AssembleTable(rows,
            IF IsIn("ALL", selected_strategies)
            THEN << [label |-> "All Strategies", products |-> all_strategies] >>
            ELSE [i \in 1..Len(chosen) |->
                     [label |-> chosen[i], products |-> <<chosen[i]>>]],
            capital)

\* values of the parameter selected_products (selected_strategies) of the
\* builders, the empty list among them
TableSelections ==
    { <<"ALL">>, <<"A">>, <<"B", "A">>, <<"A", "C">>, <<"C">>, <<>> }

InitViews ==
    /\ df \in Tables
    /\ selected = <<>>
    /\ metrics_table = NoTable
    /\ pc = "loaded"
    /\ sp = NoPack("notrun") /\ report = NoReport /\ rf_annual = DEFAULT_RF
    /\ fig = NoFig
    /\ RangeIdle /\ ThreadsIdle /\ UiIdle

\* a call of build_metrics_table: the table of a strategy's instruments
BuildMetricsTable ==
    /\ pc = "loaded"
    /\ \E sel \in TableSelections, capital \in Capitals :
          /\ selected' = sel
          /\ metrics_table' = build_metrics_table(df, sel, Columns, capital)
    /\ pc' = "table"
    /\ UNCHANGED <<df, sp, report, rf_annual, rangeVars, fig, th, ui>>

\* a call of build_portfolio_metrics_table: the columns are strategies
BuildPortfolioMetricsTable ==
    /\ pc = "loaded"
    /\ \E sel \in TableSelections, capital \in Capitals :
          /\ selected' = sel
          /\ metrics_table' = build_portfolio_metrics_table(sel, Columns, df, capital)
    /\ pc' = "portfolio_table"
    /\ UNCHANGED <<df, sp, report, rf_annual, rangeVars, fig, th, ui>>

(***************************************************************************)
(* rolling_correlation_figure (figures.py 148-202): the traces of the      *)
(* chart; layout, colours and axis ranges are not modelled.                *)
(***************************************************************************)
\* x.rolling(w).corr(y): NaN until the window is full, and NaN where one of
\* the two has no variance in the window; else cov / sqrt(var_x * var_y)
RollCorr(x, y, w) ==
    [i \in 1..Len(x) |->
        IF i < w THEN NaN
        ELSE LET xs == SubSeq(x, i - w + 1, i)
                 ys == SubSeq(y, i - w + 1, i)
                 mx == FMean(xs)
                 my == FMean(ys)
                 vx == SampleVar(xs)
                 vy == SampleVar(ys)
                 c  == FDiv(SumF([j \in 1..w |->
                                FMul(FSub(xs[j], mx), FSub(ys[j], my))]),
                            Num(w - 1))
             IN  IF IsNaN(vx) \/ IsNaN(vy) \/ vx.n = 0 \/ vy.n = 0 THEN NaN
                 ELSE FSqrt(FDiv(FMul(c, [c EXCEPT !.n = Abs(c.n)]),
                                 FMul(vx, vy)))]

\* slip: every instrument is given the returns of the whole selection
ProductReturns_Aggregate(rows, p, products) == compute_series(rows, products)

\* returns_by_product[p], from compute_series(df, [p])
ProductReturns(rows, p, products) == compute_series(rows, <<p>>)

rolling_correlation_figure(rows, products, window) ==
    LET k == Len(products)
        by_product == [i \in 1..k |-> ProductReturns(rows, products[i], products)]
        \* the pairs of the two nested loops, in the order they are met
        Pairs == {pr \in (1..k) \X (1..k) : pr[1] < pr[2]}
        Before(q, pr) == q[1] < pr[1] \/ (q[1] = pr[1] /\ q[2] < pr[2])
        PairAt(n) == CHOOSE pr \in Pairs :
                         Cardinality({q \in Pairs : Before(q, pr)}) = n - 1
    IN  IF k < 2 THEN [raised |-> "none", window |-> window, traces |-> <<>>]
        ELSE IF \E i \in 1..k : by_product[i].raised # "none"
        THEN [raised |-> by_product[CHOOSE i \in 1..k :
                            /\ by_product[i].raised # "none"
                            /\ \A j \in 1..(i - 1) : by_product[j].raised = "none"].raised,
              window |-> window, traces |-> <<>>]
        ELSE [raised |-> "none", window |-> window,
              traces |-> [n \in 1..Cardinality(Pairs) |->
                            LET pr == PairAt(n)
                            IN  [name |-> <<format_product_label(products[pr[1]]),
                                            format_product_label(products[pr[2]])>>,
                                 x |-> [i \in 1..Len(rows) |-> rows[i].date],
                                 y |-> RollCorr(by_product[pr[1]].returns,
                                                by_product[pr[2]].returns,
                                                window)]]]

\* products lists handed to the chart
FigSelections ==
    { <<>>, <<"A">>, <<"C">>, <<"A", "B">>, <<"D", "B">>, <<"A", "B", "D">>,
      <<"A", "C">> }

\* a call of rolling_correlation_figure: the chart of a selection
RollingCorrelationFigure ==
    /\ pc = "loaded"
    \* windows: two periods, and DEFAULT_ROLL_WINDOW = 63
    /\ \E sel \in FigSelections, w \in {2, 63} :
          /\ selected' = sel
          /\ fig' = rolling_correlation_figure(df, sel, w)
    /\ pc' = "figure"
    /\ UNCHANGED <<df, sp, report, rf_annual, rangeVars, metrics_table, th, ui>>

(***************************************************************************)
(* seasonality_figure: the heat map of the monthly returns of a selection. *)
(* Names that are no instrument column of the table are dropped, and a     *)
(* selection left empty stands for every instrument column.                *)
(***************************************************************************)
\* slip: a selection without a valid name stays empty
valid_products_NoFallback(products) ==
    SelectSeq(products, LAMBDA p : HasColumn(p))

valid_products(products) ==
    LET named == SelectSeq(products,
                           LAMBDA p : (HasColumn(p) \/ p = "date") /\ p # "date")
    IN  IF Len(named) = 0 THEN Columns ELSE named

seasonality_figure(rows, products) ==
    LET valid   == valid_products(products)
        pnl     == [i \in 1..Len(rows) |-> RowSum(rows[i], valid)]
        equity  == CumSum(pnl)
        eq_series  == [dates |-> [i \in 1..Len(rows) |-> rows[i].date],
                       equity |-> equity]
        monthly_eq == MonthEndEquity(eq_series)
        \* replace(0, pd.NA)
        replaced   == [b \in 1..Len(monthly_eq) |->
                          IF monthly_eq[b].k = "num" /\ monthly_eq[b].n = 0
                          THEN NaN ELSE monthly_eq[b]]
        monthly_returns == PctChange(replaced)
        first == IF Len(rows) = 0 THEN 0 ELSE MonthOf(rows[1].date)
    IN  [raised |-> "none", window |-> 0,
         traces |-> << [products |-> valid,
                        pnl |-> pnl,
                        \* the cells of the year-by-month grid that hold a return
                        z |-> {[year  |-> (first + b - 1) \div 12,
                                month |-> ((first + b - 1) % 12) + 1,
                                ret   |-> monthly_returns[b]] :
                                  b \in {c \in 1..Len(monthly_returns) :
                                            ~IsNaN(monthly_returns[c])}}] >>]

\* a call of seasonality_figure: the heat map of a selection; "C" is no
\* column of the table
SeasonalityFigure ==
    /\ pc = "loaded"
    /\ \E sel \in { <<>>, <<"C">>, <<"date">>, <<"C", "date">>, <<"A">>,
                    <<"B", "A">>, <<"A", "C">>, <<"date", "B">>,
                    <<"A", "B", "D">> } :
          /\ selected' = sel
          /\ fig' = seasonality_figure(df, sel)
    /\ pc' = "seasonality"
    /\ UNCHANGED <<df, sp, report, rf_annual, rangeVars, metrics_table, th, ui>>

NextViews ==
    \/ BuildMetricsTable
    \/ BuildPortfolioMetricsTable
    \/ RollingCorrelationFigure
    \/ SeasonalityFigure

SpecViews == InitViews /\ [][NextViews]_vars

(***************************************************************************)
(* compute_metrics on every kind of SeriesPack.  compute_series starts     *)
(* equity at pnl[0]; a caller may hand compute_metrics a SeriesPack whose  *)
(* equity starts from a capital c instead, and only such packs reach the   *)
(* CAGR and Calmar branches.  A caller may also measure every return       *)
(* against that capital, which gives packs whose first return is not 0 and *)
(* packs of equal returns that are not 0.                                  *)
(***************************************************************************)
\* rows of the tables the packs are made from
PackRows == 2

\* the SeriesPack of a selection with equity = c + cumsum(pnl)
CapitalPack(rows, products, c) ==
    LET pnl    == AggregatePnl(rows, products)
        cum    == CumSum(pnl)
        equity == [i \in 1..Len(pnl) |-> c + cum[i]]
        hwm    == Hwm(equity)
    IN  SeriesPack([i \in 1..Len(rows) |-> rows[i].date], pnl, equity, hwm,
                   Drawdown(equity, hwm), Returns(pnl, equity))

\* the SeriesPack of a selection with equity = c + cumsum(pnl) and every
\* return measured against c: returns = pnl / c
FixedBasePack(rows, products, c) ==
    LET pack == CapitalPack(rows, products, c)
    IN  [pack EXCEPT !.returns = [i \in 1..Len(pack.pnl) |-> Rat(pack.pnl[i], c)]]

\* the packs of compute_series for every table; the tables of PackRows rows
\* with a capital of 1 or 2; two tables on which a capital of 10 grows to 69
\* and to 70 from one day to the next, on either side of the limit of the
\* CAGR power; and one or three periods that each gain or lose 1 on a
\* capital of 2 or 10, with returns of 1/2 or 1/10 of either sign throughout
InitPacks ==
    /\ \/ /\ selected \in { <<"A">>, <<"A", "B", "D">> }
          /\ df \in Tables
          /\ sp = compute_series(df, selected)
       \/ /\ selected \in { <<"A">>, <<"A", "B", "D">> }
          /\ df \in {t \in Tables : Len(t) <= PackRows}
          /\ \E c \in {1, 2} : sp = CapitalPack(df, selected, c)
       \/ /\ selected \in { <<"A">>, <<"A", "B", "D">> }
          /\ \E a \in {59, 60} :
                df = << [date |-> <<2024, 1, 31>>, A |-> 0, B |-> 0, D |-> 1],
                        [date |-> <<2024, 2, 1>>, A |-> a, B |-> 0, D |-> 1] >>
          /\ sp = CapitalPack(df, selected, 10)
       \/ /\ selected = <<"A">>
          /\ \E count \in {1, 3}, a \in {-1, 1}, c \in {2, 10} :
                /\ df = [i \in 1..count |->
                            [date |-> DatePool[i], A |-> a, B |-> 0, D |-> 1]]
                /\ sp = FixedBasePack(df, selected, c)
    /\ report = NoReport
    /\ rf_annual = DEFAULT_RF
    /\ pc = "series"
    /\ RangeIdle /\ ViewIdle /\ ThreadsIdle /\ UiIdle

SpecPacks == InitPacks /\ [][ComputeMetrics]_vars

(***************************************************************************)
(* The page (callbacks.py, layout.py).  The stores and controls of the     *)
(* page are the fields of ui:                                              *)
(*    range[p], label[p]  store-<p>-range and the text of <p>-range-btn    *)
(*    cycle_label         the text of btn-cycle-range                      *)
(*    layout              the value of layout-radio                        *)
(*    visible             the value of the panel-visibility checklist      *)
(*    last_deselected     store-last-deselected                            *)
(*    strategy            store-selected-strategy                          *)
(*    strategy_radio, home_radio   the values of the two radio groups      *)
(*    products            store-selected-products                          *)
(*    sidebar, settings   is_open of the two sidebars                      *)
(*    event               the last input of the user                       *)
(*    pending             the callbacks requested and not yet run, each    *)
(*                        with the input that triggered it                 *)
(* An input of the user changes a property of a control and requests the   *)
(* callbacks that have the property as an Input; a callback whose Output   *)
(* is the Input of others requests those when it returns.  The requested   *)
(* callbacks run in any order.  The user acts on a settled page.  The      *)
(* callbacks that only restyle or redraw (class names, styles, figures)    *)
(* write none of these fields and are left out.                            *)
(***************************************************************************)
PANEL_KEYS == <<"equity", "custom", "drawdown", "metrics">>

Panels == {PANEL_KEYS[i] : i \in 1..Len(PANEL_KEYS)}

\* the keys of the strategies dictionary and the instrument columns of each
STRATEGY_NAMES == <<"S1", "S2">>

products_for_strategy(strategy) ==
    CASE strategy = "S1" -> <<"A", "B">>
      [] strategy = "S2" -> <<"D">>
      [] OTHER -> <<>>

\* the values of the product buttons render_product_buttons draws
ProductButtons(strategy) ==
    IF strategy = "Portfolio"
    THEN IF Len(STRATEGY_NAMES) = 0 THEN <<>> ELSE <<"ALL">> \o STRATEGY_NAMES
    ELSE IF Len(products_for_strategy(strategy)) = 0 THEN <<>>
    ELSE <<"ALL">> \o products_for_strategy(strategy)

\* an input: the id of the control and, for a button of a group, its value
Input(id, value) == [id |-> id, value |-> value]

\* a list of names as the value of an input, written out
RECURSIVE Listed(_)
Listed(names) ==
    IF Len(names) = 0 THEN ""
    ELSE names[1] \o "," \o Listed(Tail(names))

\* the callbacks that list a property of the control among their Inputs
Triggered(id) ==
    CASE id = "btn-open-sidebar"        -> {"toggle_sidebar"}
      [] id = "store-selected-strategy" -> {"toggle_sidebar", "set_products"}
      [] id = "btn-open-settings"       -> {"toggle_settings_sidebar"}
      [] id = "csv-open-btn"            -> {"toggle_settings_sidebar"}
      [] id = "btn-reset-layout" ->
            {"toggle_settings_sidebar", "enforce_panel_visibility",
             "reset_layout_option", "update_range_controls", "set_strategy"}
      [] id = "panel-visibility"        -> {"enforce_panel_visibility"}
      [] id \in {"equity-range-btn", "drawdown-range-btn", "metrics-range-btn",
                 "custom-range-btn", "btn-cycle-range"}
                                        -> {"update_range_controls"}
      [] id \in {"strategy-radio", "home-radio"} -> {"set_strategy"}
      [] id = "product-btn"             -> {"set_products"}
      [] OTHER -> {}

Requests(trig) == {[cb |-> c, trig |-> trig] : c \in Triggered(trig.id)}

\* the page build_layout returns
InitialUi ==
    [range   |-> [p \in Panels |-> "All"],
     label   |-> [p \in Panels |-> "All"],
     cycle_label |-> "All Panels: All",
     layout  |-> "default",
     visible |-> PANEL_KEYS,
     last_deselected |-> None,
     strategy |-> "Portfolio",
     strategy_radio |-> None,
     home_radio |-> "Portfolio",
     products |-> <<"ALL">>,
     sidebar |-> FALSE,
     settings |-> FALSE,
     event   |-> Input("", ""),
     pending |-> {}]

(***************************************************************************)
(* The callbacks, as functions of their arguments.                         *)
(***************************************************************************)
\* slip: the panel hidden again is always the last missing one
enforce_panel_visibility_LastMissing(visible_panels, trig, last_deselected) ==
    IF trig.id = "btn-reset-layout" THEN <<PANEL_KEYS, None>>
    ELSE LET missing == SelectSeq(PANEL_KEYS,
                            LAMBDA p : \A j \in 1..Len(visible_panels) :
                                           visible_panels[j] # p)
         IN  IF Len(missing) <= 1
             THEN <<visible_panels, IF Len(missing) > 0 THEN missing[1] ELSE None>>
             ELSE <<SelectSeq(PANEL_KEYS, LAMBDA p : p # missing[Len(missing)]),
                    missing[Len(missing)]>>

\* returns <<panel-visibility value, store-last-deselected>>
enforce_panel_visibility(visible_panels, trig, last_deselected) ==
    IF trig.id = "btn-reset-layout" THEN <<PANEL_KEYS, None>>
    ELSE LET visible == visible_panels
             missing == SelectSeq(PANEL_KEYS,
                            LAMBDA p : \A j \in 1..Len(visible) : visible[j] # p)
         IN  IF Len(missing) <= 1
             THEN <<visible, IF Len(missing) > 0 THEN missing[1] ELSE None>>
             ELSE LET others == SelectSeq(missing, LAMBDA p : p # last_deselected)
                      newly_deselected ==
                          IF \E j \in 1..Len(missing) : missing[j] = last_deselected
                          THEN others[1]
                          ELSE missing[Len(missing)]
                  IN  <<SelectSeq(PANEL_KEYS, LAMBDA p : p # newly_deselected),
                        newly_deselected>>

\* slip: the label names the first range whatever the others are
range_cycle_label_First(ranges) == "All Panels: " \o OrAll(ranges[1])

range_cycle_label(ranges) ==
    LET normalized == [i \in 1..Len(ranges) |-> OrAll(ranges[i])]
    IN  IF Cardinality({normalized[i] : i \in 1..Len(ranges)}) = 1
        THEN "All Panels: " \o normalized[1]
        ELSE "All Panels: Mixed"

\* the outputs of update_range_controls, the stores with their labels
RangeOutputs(r) ==
    [range |-> [p \in Panels |-> OrAll(r[p])],
     label |-> [p \in Panels |-> OrAll(r[p])],
     cycle_label |-> range_cycle_label(<<r.equity, r.drawdown, r.metrics, r.custom>>)]

\* slip: the cycle button advances every panel from its own range
update_range_controls_CycleEach(trig, ranges) ==
    IF trig.id = "btn-reset-layout"
    THEN [range |-> [p \in Panels |-> "All"], label |-> [p \in Panels |-> "All"],
          cycle_label |-> "All Panels: All"]
    ELSE IF trig.id = "btn-cycle-range"
    THEN RangeOutputs([p \in Panels |-> next_range_key(ranges[p])])
    ELSE RangeOutputs([p \in Panels |->
                          IF trig.id = p \o "-range-btn"
                          THEN next_range_key(ranges[p]) ELSE ranges[p]])

update_range_controls(trig, ranges) ==
    IF trig.id = "btn-reset-layout"
    THEN [range |-> [p \in Panels |-> "All"], label |-> [p \in Panels |-> "All"],
          cycle_label |-> "All Panels: All"]
    ELSE IF trig.id \in {"equity-range-btn", "drawdown-range-btn",
                         "metrics-range-btn", "custom-range-btn"}
    THEN RangeOutputs([p \in Panels |->
                          IF trig.id = p \o "-range-btn"
                          THEN next_range_key(ranges[p]) ELSE ranges[p]])
    ELSE IF trig.id = "btn-cycle-range"
    THEN LET next_range == next_range_key(ranges.equity)
         IN  RangeOutputs([p \in Panels |-> next_range])
    ELSE RangeOutputs(ranges)

\* slip: a reset leaves the selected strategy as it is
set_strategy_KeepsOnReset(strategy, home_strategy, trig, current) ==
    LET selected_strategy ==
            IF trig.id = "home-radio" /\ home_strategy # None THEN home_strategy
            ELSE IF trig.id = "strategy-radio" /\ strategy # None THEN strategy
            ELSE IF current = None THEN "Portfolio" ELSE current
    IN  << selected_strategy,
           IF \E j \in 1..Len(STRATEGY_NAMES) : STRATEGY_NAMES[j] = selected_strategy
           THEN selected_strategy ELSE None,
           IF selected_strategy = "Portfolio" THEN "Portfolio" ELSE None >>

\* returns <<store-selected_strategy-strategy, strategy-radio value, home-radio value>>
set_strategy(strategy, home_strategy, trig, current) ==
    LET start == IF current = None THEN "Portfolio" ELSE current
        reset == IF trig.id = "btn-reset-layout" THEN "Portfolio" ELSE start
        selected_strategy ==
            IF trig.id = "home-radio"
            THEN (IF home_strategy # None THEN home_strategy ELSE reset)
            ELSE IF trig.id = "strategy-radio"
            THEN (IF strategy # None THEN strategy ELSE reset)
            ELSE reset
        strategy_value ==
            IF \E j \in 1..Len(STRATEGY_NAMES) : STRATEGY_NAMES[j] = selected_strategy
            THEN selected_strategy ELSE None
        home_value == IF selected_strategy = "Portfolio" THEN "Portfolio" ELSE None
    IN  <<selected_strategy, strategy_value, home_value>>

\* sorted(): the names in the order of their characters
NameOrder == <<"A", "B", "D", "S1", "S2">>

Sorted(names) == SelectSeq(NameOrder, LAMBDA p : p \in names)

\* slip: deselecting the last product leaves the empty list
set_products_KeepsEmpty(strategy, trig, current) ==
    IF  /\ \A j \in 1..Len(STRATEGY_NAMES) : STRATEGY_NAMES[j] # strategy
        /\ strategy # "Portfolio"
    THEN <<"ALL">>
    ELSE IF trig.id = "store-selected-strategy" THEN <<"ALL">>
    ELSE IF trig.id # "product-btn" THEN current
    ELSE IF trig.value = "ALL" THEN <<"ALL">>
    ELSE LET before == {current[j] : j \in 1..Len(current)} \ {"ALL"}
         IN  Sorted(IF trig.value \in before
                    THEN before \ {trig.value}
                    ELSE before \cup {trig.value})

set_products(strategy, trig, current) ==
    IF  /\ \A j \in 1..Len(STRATEGY_NAMES) : STRATEGY_NAMES[j] # strategy
        /\ strategy # "Portfolio"
    THEN <<"ALL">>
    ELSE IF trig.id = "store-selected-strategy" THEN <<"ALL">>
    ELSE IF trig.id # "product-btn" THEN current
    ELSE LET clicked == trig.value
         IN  IF clicked = "ALL" THEN <<"ALL">>
             ELSE LET before == {current[j] : j \in 1..Len(current)} \ {"ALL"}
                      selected_set == IF clicked \in before
                                      THEN before \ {clicked}
                                      ELSE before \cup {clicked}
                  IN  IF Cardinality(selected_set) = 0 THEN <<"ALL">>
                      ELSE Sorted(selected_set)

(***************************************************************************)
(* The page as a state machine: the inputs of the user and one action per  *)
(* callback.                                                               *)
(***************************************************************************)
\* the variables of the analytics core, which the page machine leaves alone
coreIdle ==
    /\ df = <<>> /\ sp = NoPack("notrun") /\ report = NoReport
    /\ selected = <<>> /\ rf_annual = DEFAULT_RF
    /\ RangeIdle /\ ViewIdle /\ ThreadsIdle

coreVars == <<df, sp, report, selected, rf_annual, pc, rangeVars, viewVars, th>>

Settled == ui.pending = {}

\* the page after the user's input e, with the callbacks of e requested
Requested(page, e) == [page EXCEPT !.event = e, !.pending = Requests(e)]

\* the request for callback cb, if one is pending
Pending(cb) == {req \in ui.pending : req.cb = cb}

\* a click on btn-reset-layout
ClickResetLayout ==
    /\ pc = "page" /\ Settled
    /\ ui' = Requested(ui, Input("btn-reset-layout", ""))
    /\ UNCHANGED coreVars

\* a click on the range button of a panel or on btn-cycle-range
ClickRange ==
    /\ pc = "page" /\ Settled
    /\ \E id \in {"equity-range-btn", "drawdown-range-btn", "metrics-range-btn",
                  "custom-range-btn", "btn-cycle-range"} :
          ui' = Requested(ui, Input(id, ""))
    /\ UNCHANGED coreVars

\* the settings sidebar: its button, a csv button, a layout option, or a
\* new value of the panel checklist (a box ticked or unticked, or several)
ChangeSettings ==
    /\ pc = "page" /\ Settled
    /\ \/ \E id \in {"btn-open-settings", "csv-open-btn"} :
             ui' = Requested(ui, Input(id, ""))
       \/ \E layout \in {"default", "focused", "analytics"} \ {ui.layout} :
             ui' = Requested([ui EXCEPT !.layout = layout],
                             Input("layout-radio", layout))
       \/ \E shown \in SUBSET Panels :
             LET value == SelectSeq(PANEL_KEYS, LAMBDA p : p \in shown)
             IN  /\ value # ui.visible
                 /\ ui' = Requested([ui EXCEPT !.visible = value],
                                    Input("panel-visibility", Listed(value)))
    /\ UNCHANGED coreVars

\* the strategy sidebar: its button, a strategy of either radio group, or a
\* click on one of the product buttons drawn for the selected strategy
ChooseStrategy ==
    /\ pc = "page" /\ Settled
    /\ \/ ui' = Requested(ui, Input("btn-open-sidebar", ""))
       \/ \E j \in 1..Len(STRATEGY_NAMES) :
             /\ ui.strategy_radio # STRATEGY_NAMES[j]
             /\ ui' = Requested([ui EXCEPT !.strategy_radio = STRATEGY_NAMES[j]],
                                Input("strategy-radio", STRATEGY_NAMES[j]))
       \/ /\ ui.home_radio # "Portfolio"
          /\ ui' = Requested([ui EXCEPT !.home_radio = "Portfolio"],
                             Input("home-radio", "Portfolio"))
       \/ \E j \in 1..Len(ProductButtons(ui.strategy)) :
             ui' = Requested(ui, Input("product-btn",
                                       ProductButtons(ui.strategy)[j]))
    /\ UNCHANGED coreVars

\* callbacks.py, toggle_sidebar
ToggleSidebar ==
    /\ pc = "page"
    /\ \E req \in Pending("toggle_sidebar") :
          ui' = [ui EXCEPT
                   !.sidebar = IF req.trig.id = "btn-open-sidebar" THEN ~ui.sidebar
                               ELSE IF req.trig.id = "store-selected-strategy"
                               THEN FALSE
                               ELSE ui.sidebar,
                   !.pending = @ \ {req}]
    /\ UNCHANGED coreVars

\* callbacks.py, toggle_settings_sidebar
ToggleSettingsSidebar ==
    /\ pc = "page"
    /\ \E req \in Pending("toggle_settings_sidebar") :
          ui' = [ui EXCEPT
                   !.settings = IF req.trig.id = "btn-open-settings" THEN ~ui.settings
                                ELSE IF req.trig.id \in {"btn-reset-layout",
                                                         "csv-open-btn"}
                                THEN FALSE
                                ELSE ui.settings,
                   !.pending = @ \ {req}]
    /\ UNCHANGED coreVars

EnforcePanelVisibility ==
    /\ pc = "page"
    /\ \E req \in Pending("enforce_panel_visibility") :
          LET out == enforce_panel_visibility(ui.visible, req.trig,
                                              ui.last_deselected)
          IN  ui' = [ui EXCEPT !.visible = out[1],
                               !.last_deselected = out[2],
                               !.pending = @ \ {req}]
    /\ UNCHANGED coreVars

\* callbacks.py, reset_layout_option; n_clicks counts the clicks so far
ResetLayoutOption ==
    /\ pc = "page"
    /\ \E req \in Pending("reset_layout_option"), n_clicks \in {1, 2} :
          ui' = [ui EXCEPT !.layout = IF n_clicks = 0 THEN @ ELSE "default",
                           !.pending = @ \ {req}]
    /\ UNCHANGED coreVars

UpdateRangeControls ==
    /\ pc = "page"
    /\ \E req \in Pending("update_range_controls") :
          LET out == update_range_controls(req.trig, ui.range)
          IN  ui' = [ui EXCEPT !.range = out.range,
                               !.label = out.label,
                               !.cycle_label = out.cycle_label,
                               !.pending = @ \ {req}]
    /\ UNCHANGED coreVars

\* the store it writes is an Input of toggle_sidebar and set_products
SetStrategy ==
    /\ pc = "page"
    /\ \E req \in Pending("set_strategy") :
          LET out == set_strategy(ui.strategy_radio, ui.home_radio, req.trig,
                                  ui.strategy)
          IN  ui' = [ui EXCEPT
                       !.strategy = out[1],
                       !.strategy_radio = out[2],
                       !.home_radio = out[3],
                       !.pending = (@ \ {req})
                           \cup Requests(Input("store-selected-strategy", ""))]
    /\ UNCHANGED coreVars

SetProducts ==
    /\ pc = "page"
    /\ \E req \in Pending("set_products") :
          ui' = [ui EXCEPT
                   !.products = set_products(ui.strategy, req.trig, ui.products),
                   !.pending = @ \ {req}]
    /\ UNCHANGED coreVars

Callbacks ==
    \/ ToggleSidebar
    \/ ToggleSettingsSidebar
    \/ EnforcePanelVisibility
    \/ ResetLayoutOption
    \/ UpdateRangeControls
    \/ SetStrategy
    \/ SetProducts

\* the page as served
InitPage == ui = InitialUi /\ pc = "page" /\ coreIdle

\* the range buttons, the cycle button and the reset
NextRangeControls == ClickRange \/ ClickResetLayout \/ Callbacks

SpecRangeControls == InitPage /\ [][NextRangeControls]_vars

\* the settings sidebar and the reset
NextSettings == ChangeSettings \/ ClickResetLayout \/ Callbacks

SpecSettings == InitPage /\ [][NextSettings]_vars

\* the strategy sidebar, the product buttons and the reset
NextStrategy == ChooseStrategy \/ ClickResetLayout \/ Callbacks

SpecStrategy == InitPage /\ [][NextStrategy]_vars

(***************************************************************************)
(* The reset.  The page is in one of a sample of the settled states the    *)
(* inputs above lead to; the user clicks btn-reset-layout.  Every callback *)
(* the browser requests is sent to the server and answered, so a pending   *)
(* callback does run: weak fairness on each of them.                       *)
(***************************************************************************)
InitReset ==
    /\ pc = "page" /\ coreIdle
    /\ \E r \in { [p \in Panels |-> "All"], [p \in Panels |-> "1Y"],
                  [equity |-> "1M", drawdown |-> "YTD",
                   metrics |-> "All", custom |-> "3M"] },
          layout \in {"default", "focused", "analytics"},
          hidden \in {None, "custom", "metrics"},
          choice \in { <<"Portfolio", <<"ALL">> >>, <<"Portfolio", <<"S1", "S2">> >>,
                       <<"S1", <<"A", "B">> >>, <<"S2", <<"D">> >> },
          sidebar \in BOOLEAN, settings \in BOOLEAN :
          ui = [InitialUi EXCEPT
                  !.range = r,
                  !.label = r,
                  !.cycle_label = RangeOutputs(r).cycle_label,
                  !.layout = layout,
                  !.visible = SelectSeq(PANEL_KEYS, LAMBDA p : p # hidden),
                  !.last_deselected = hidden,
                  !.strategy = choice[1],
                  !.strategy_radio = set_strategy(None, None, Input("", ""),
                                                  choice[1])[2],
                  !.home_radio = set_strategy(None, None, Input("", ""),
                                              choice[1])[3],
                  !.products = choice[2],
                  !.sidebar = sidebar,
                  !.settings = settings]

NextReset == ClickResetLayout \/ Callbacks

SpecReset ==
    /\ InitReset
    /\ [][NextReset]_vars
    /\ WF_vars(ToggleSidebar)
    /\ WF_vars(ToggleSettingsSidebar)
    /\ WF_vars(EnforcePanelVisibility)
    /\ WF_vars(ResetLayoutOption)
    /\ WF_vars(UpdateRangeControls)
    /\ WF_vars(SetStrategy)
    /\ WF_vars(SetProducts)

(***************************************************************************)
(* Vocabulary of the properties.                                           *)
(***************************************************************************)
\* compute_series has returned a pack for the table
SeriesDone == pc \in {"series", "metrics"} /\ sp.raised = "none"

\* compute_metrics has been applied to that pack
MetricsDone == pc = "metrics"

InSel(c) == \E j \in 1..Len(selected) : selected[j] = c

\* the metric names of the report, in the order the source lists them
MetricNames ==
    << "Total PnL", "Final Equity", "CAGR", "Volatility", "Sharpe", "Sortino",
       "Max Drawdown", "Calmar", "Hit Rate", "Profit Factor", "Avg Win",
       "Avg Loss", "Best Day PnL", "Worst Day PnL", "Median Daily PnL",
       "Std Daily PnL", "Avg Monthly Return", "Monthly Return Vol",
       "Skew (returns)", "Kurtosis (returns)", "Expectancy (per day)",
       "Max DD Duration (bars)", "Annualization" >>

NamesInOrder ==
    /\ Len(report.rows) = Len(MetricNames)
    /\ \A i \in 1..Len(MetricNames) : report.rows[i].Metric = MetricNames[i]

\* the printed value of the row called name ("—" if the report lacks it)
ValueOf(name) ==
    IF \E i \in 1..Len(report.rows) : report.rows[i].Metric = name
    THEN report.rows[CHOOSE i \in 1..Len(report.rows) :
                         report.rows[i].Metric = name].Value
    ELSE Dash

IsDash(name) == ValueOf(name).fmt = "dash"

\* the per-period rate the code subtracted is above zero
RfPositive == FLess(Num(0), RfPeriod(rf_annual))

ImpliedCapitalPositive ==
    Len(sp.equity) >= 1 /\ sp.equity[1] - sp.pnl[1] > 0

C2_PnlSumEquityCumsum ==
    (SeriesDone /\ Len(selected) > 0) =>
        /\ Len(sp.pnl) = Len(df) /\ Len(sp.equity) = Len(df)
        /\ \A i \in 1..Len(df) :
              sp.pnl[i] = (IF InSel("A") THEN df[i].A ELSE 0)
                          + (IF InSel("B") THEN df[i].B ELSE 0)
        /\ \A i \in 1..Len(df) :
              sp.equity[i] = (IF i = 1 THEN 0 ELSE sp.equity[i - 1]) + sp.pnl[i]

\* two columns are summed over three rows and equity moves down and up
C2_Witness ==
    /\ SeriesDone
    /\ selected = <<"A", "B">>
    /\ Len(df) = 3
    /\ df[1].A = 1 /\ df[1].B = 1 /\ df[2].A = -1 /\ df[2].B = 0
    /\ df[3].A = 1 /\ df[3].B = 1
    /\ sp.pnl = <<2, -1, 2>>
    /\ sp.equity = <<2, 1, 3>>

(***************************************************************************)
(* C3.  hwm[i] is the maximum of equity[0..i], and hwm never decreases.    *)
(***************************************************************************)
C3_HwmRunningMax ==
    SeriesDone =>
        /\ Len(sp.hwm) = Len(sp.equity)
        /\ \A i \in 1..Len(sp.equity) :
              /\ \E j \in 1..i : sp.hwm[i] = sp.equity[j]
              /\ \A j \in 1..i : sp.equity[j] <= sp.hwm[i]
        /\ \A i \in 1..(Len(sp.hwm) - 1) : sp.hwm[i] <= sp.hwm[i + 1]

\* equity starts below zero, falls, then makes a new high
C3_Witness ==
    /\ SeriesDone
    /\ sp.equity = <<-1, -2, 0>>
    /\ sp.hwm = <<-1, -1, 0>>

(***************************************************************************)
(* C4.  drawdown[i] = equity[i] - hwm[i], never positive, and zero exactly *)
(* when equity is at its high.                                             *)
(***************************************************************************)
C4_DrawdownNonPositive ==
    SeriesDone =>
        /\ Len(sp.drawdown) = Len(sp.equity)
        /\ \A i \in 1..Len(sp.equity) :
              /\ sp.drawdown[i] = sp.equity[i] - sp.hwm[i]
              /\ sp.drawdown[i] <= 0
              /\ (sp.drawdown[i] = 0) <=> (sp.equity[i] = sp.hwm[i])

\* a drawdown opens and is closed by an equalled high
C4_Witness ==
    /\ SeriesDone
    /\ sp.equity = <<1, 0, 1>>
    /\ sp.drawdown = <<0, -1, 0>>

(***************************************************************************)
(* C5.  returns[i] = pnl[i] / equity[i-1] when there is a non-zero prior   *)
(* equity, exactly 0 otherwise, and never NaN.                             *)
(***************************************************************************)
C5_ReturnsOnPriorEquity ==
    SeriesDone =>
        /\ Len(sp.returns) = Len(sp.pnl)
        /\ \A i \in 1..Len(sp.returns) :
              /\ sp.returns[i].k = "num"
              /\ sp.returns[i].d > 0
              /\ IF i >= 2 /\ sp.equity[i - 1] # 0
                 THEN sp.returns[i].n * sp.equity[i - 1]
                         = sp.pnl[i] * sp.returns[i].d
                 ELSE sp.returns[i].n = 0

\* a period of non-zero pnl follows zero equity, and one follows equity 2
C5_Witness ==
    /\ SeriesDone
    /\ sp.equity = <<0, 2, 1>>
    /\ sp.returns = <<Num(0), Num(0), Rat(-1, 2)>>

(***************************************************************************)
(* C6.  An empty selection is no error: all five series are zero and as    *)
(* long as the table.                                                      *)
(***************************************************************************)
C6_EmptySelectionZeros ==
    (pc \in {"series", "metrics"} /\ selected = <<>>) =>
        /\ sp.raised = "none"
        /\ sp.pnl = [i \in 1..Len(df) |-> 0]
        /\ sp.equity = [i \in 1..Len(df) |-> 0]
        /\ sp.hwm = [i \in 1..Len(df) |-> 0]
        /\ sp.drawdown = [i \in 1..Len(df) |-> 0]
        /\ sp.returns = [i \in 1..Len(df) |-> Num(0)]

\* nothing is selected from a table whose cells are not zero
C6_Witness ==
    /\ SeriesDone
    /\ selected = <<>>
    /\ Len(df) = 3
    /\ \A i \in 1..3 : df[i].A # 0 /\ df[i].B # 0
    /\ sp.pnl = <<0, 0, 0>>

(***************************************************************************)
(* C7.  In the first period drawdown and return are 0, whatever the sign   *)
(* of the first pnl.                                                       *)
(***************************************************************************)
C7_FirstPeriod ==
    (SeriesDone /\ Len(df) >= 1) =>
        /\ sp.drawdown[1] = 0
        /\ sp.returns[1] = Num(0)

\* a single period with a loss
C7_Witness ==
    /\ SeriesDone
    /\ Len(df) = 1
    /\ sp.pnl = <<-1>>
    /\ sp.drawdown = <<0>>

(***************************************************************************)
(* C8.  All six fields of a pack are as long as the table and position i   *)
(* is the table's row i; an empty table gives an empty pack.               *)
(***************************************************************************)
C8_AlignedLengths ==
    SeriesDone =>
        /\ Len(sp.dates) = Len(df)
        /\ Len(sp.pnl) = Len(df)
        /\ Len(sp.equity) = Len(df)
        /\ Len(sp.hwm) = Len(df)
        /\ Len(sp.drawdown) = Len(df)
        /\ Len(sp.returns) = Len(df)
        /\ \A i \in 1..Len(df) : sp.dates[i] = df[i].date

\* a selection applied to the empty table
C8_Witness ==
    /\ SeriesDone
    /\ Len(df) = 0
    /\ selected = <<"A", "B">>
    /\ sp.dates = <<>> /\ sp.returns = <<>>

OneExcessNegative ==
    /\ Len(sp.returns) = 1
    /\ FLess(FSub(sp.returns[1], RfPeriod(rf_annual)), Num(0))

C9_WitnessLoss ==
    /\ MetricsDone
    /\ Len(sp.returns) = 1
    /\ FLess(sp.returns[1], Num(0))
    /\ rf_annual = DEFAULT_RF
    /\ ~IsDash("Sortino")

\* one period without a return and a rate of 1e-17: Sortino is "—"
C9_WitnessTinyRate ==
    /\ MetricsDone
    /\ Len(sp.returns) = 1
    /\ sp.returns[1] = Num(0)
    /\ rf_annual = [k |-> "tiny", n |-> 1, d |-> 1]
    /\ IsDash("Sortino")

(***************************************************************************)
(* C10.  compute_metrics never raises on a pack of compute_series, returns *)
(* the full report, and prints every degenerate statistic as "—".          *)
(***************************************************************************)
\* C10 as stated: no exception, the full report, and "—" for every
\* statistic that is undefined in the pack's degenerate case
C10_NeverRaisesDegenerateDash ==
    MetricsDone =>
        /\ report.raised = "none"
        /\ NamesInOrder
        /\ \A i \in 1..Len(report.rows) : report.rows[i].Value.k # "inf"
        /\ Len(sp.pnl) = 0 =>
              \A i \in 2..21 : report.rows[i].Value.fmt = "dash"
        /\ Len(sp.pnl) = 1 =>
              IsDash("Sharpe") /\ IsDash("Volatility") /\ IsDash("Std Daily PnL")
        /\ (\A i \in 1..Len(sp.returns) : sp.returns[i] = sp.returns[1]) =>
              IsDash("Sharpe") /\ IsDash("Volatility")
        /\ (\A i \in 1..Len(sp.pnl) : sp.pnl[i] >= 0) =>
              IsDash("Profit Factor") /\ IsDash("Avg Loss")
        /\ (\A i \in 1..Len(sp.pnl) : sp.pnl[i] <= 0) => IsDash("Avg Win")

\* the part of C10 the code keeps: no exception and the full report
C10_NeverRaises ==
    MetricsDone => (report.raised = "none" /\ NamesInOrder)

(***************************************************************************)
(* C11.  A selection that names a column the table does not have: the      *)
(* claim is that compute_series returns, the absent column adding nothing  *)
(* to pnl.  df[products] raises KeyError instead.                          *)
(***************************************************************************)
\* compute_series has been called, whether it returned or raised
SeriesCalled == pc \in {"series", "metrics"}

NamesAbsentColumn == \E j \in 1..Len(selected) : ~HasColumn(selected[j])

\* C11 as stated: with an absent column in the selection compute_series
\* returns, and pnl is the row sum over the selected columns that exist
C11_AbsentColumnIgnored ==
    (SeriesCalled /\ NamesAbsentColumn) =>
        /\ sp.raised = "none"
        /\ sp.pnl = AggregatePnl(df, SelectSeq(selected, HasColumn))
        /\ sp.equity = CumSum(sp.pnl)

\* what the code does: every such call raises KeyError and yields no pack
C11_AbsentColumnRaises ==
    (SeriesCalled /\ NamesAbsentColumn) => sp.raised = "KeyError"

(***************************************************************************)
(* C12.  filter_df_by_range returns the table itself for "All" and for an  *)
(* unset key, and for 1M / 3M / YTD / 1Y exactly the rows dated in         *)
(* [start, end], in their order, end being the latest date of the table.   *)
(***************************************************************************)
\* filter_df_by_range has returned
FilterDone == filtered.raised = "none"

\* the latest date of the table, said without the code's max()
IsLatest(d) ==
    /\ \E i \in 1..Len(df) : df[i].date = d
    /\ \A i \in 1..Len(df) : DateLeq(df[i].date, d)

\* `end` minus k calendar months: the same day of the month k months back,
\* or the last day of that month if it has no such day
CalendarBack(end, k, s) ==
    /\ s[1] * 12 + s[2] = end[1] * 12 + end[2] - k
    /\ s[2] \in 1..12
    /\ s[3] \in 1..DaysInMonth(s[1], s[2])
    /\ s[3] <= end[3]
    /\ s[3] = end[3] \/ s[3] = DaysInMonth(s[1], s[2])

\* s is the start the claim gives the window of key k that ends at end
IsWindowStart(k, end, s) ==
    CASE k = "1M"  -> CalendarBack(end, 1, s)
      [] k = "3M"  -> CalendarBack(end, 3, s)
      [] k = "YTD" -> s = <<end[1], 1, 1>>
      [] k = "1Y"  -> CalendarBack(end, 12, s)

\* rows is the table cut to its positions P, order kept
IsCut(rows, P) ==
    /\ Len(rows) = Cardinality(P)
    /\ \A j \in 1..Len(rows) : rows[j] = df[Kth(P, j)]

C12_WindowRows ==
    FilterDone =>
        /\ filtered.key \in {"All", None} => filtered.rows = df
        /\ (filtered.key \in {"1M", "3M", "YTD", "1Y"} /\ Len(df) > 0) =>
              \A e \in {df[i].date : i \in 1..Len(df)} :
                  IsLatest(e) =>
                      \E y \in {e[1] - 1, e[1]}, m \in 1..12, d \in 1..31 :
                          /\ IsWindowStart(filtered.key, e, <<y, m, d>>)
                          /\ IsCut(filtered.rows,
                                   {i \in 1..Len(df) :
                                       /\ DateLeq(<<y, m, d>>, df[i].date)
                                       /\ DateLeq(df[i].date, e)})

\* one month back from 31 March 2024 is the leap day: of the six dates the
\* 1M window keeps 29 February and 31 March
C12_Witness ==
    /\ FilterDone
    /\ filtered.key = "1M"
    /\ Len(df) = 6
    /\ Len(filtered.rows) = 2
    /\ filtered.rows[1].date = <<2024, 2, 29>>
    /\ filtered.rows[2].date = <<2024, 3, 31>>

(***************************************************************************)
(* C13.  Of a non-empty table filter_df_by_range returns a non-empty       *)
(* table that holds the row(s) of the latest date, whatever the key.       *)
(***************************************************************************)
C13_NeverEmptyKeepsLatest ==
    (FilterDone /\ Len(df) > 0) =>
        /\ Len(filtered.rows) > 0
        /\ \A i \in 1..Len(df) :
              IsLatest(df[i].date) =>
                  \E j \in 1..Len(filtered.rows) : filtered.rows[j] = df[i]

\* a window that cuts every row but the latest away
C13_Witness ==
    /\ FilterDone
    /\ filtered.key = "YTD"
    /\ Len(df) >= 3
    /\ Len(filtered.rows) = 1
    /\ filtered.rows[1] = df[Len(df)]

(***************************************************************************)
(* C14.  next_range_key steps through 1M, 3M, YTD, 1Y, All and wraps;      *)
(* None counts as All, a key outside the options goes to 1M; five steps    *)
(* from an option come back to it having met all five.                     *)
(***************************************************************************)
\* the successor the claim gives each key
ClaimedNext(k) ==
    CASE k = "1M"  -> "3M"
      [] k = "3M"  -> "YTD"
      [] k = "YTD" -> "1Y"
      [] k = "1Y"  -> "All"
      [] k = "All" -> "1M"
      [] k = None  -> "1M"
      [] OTHER     -> "1M"

C14_CycleOfFive ==
    /\ \A i \in 1..(Len(visited) - 1) : visited[i + 1] = ClaimedNext(visited[i])
    /\ (Len(visited) >= 6 /\ visited[1] \in {"1M", "3M", "YTD", "1Y", "All"}) =>
          /\ visited[6] = visited[1]
          /\ {visited[i] : i \in 1..5} = {"1M", "3M", "YTD", "1Y", "All"}

\* five clicks from YTD, through the wrap, back to YTD
C14_Witness ==
    /\ visited = <<"YTD", "1Y", "All", "1M", "3M", "YTD">>
    /\ range_key = "YTD"

(***************************************************************************)
(* C15.  The three functions are pure: no statement of a call changes the  *)
(* shared table or a pack that was returned, and every call that ends,     *)
(* however its statements were interleaved with another thread's, returns  *)
(* what the functions give on that table, so calls with the same inputs    *)
(* return the same.                                                        *)
(***************************************************************************)
\* what one uninterrupted call of the pipeline returns
Sequential(rows, key, products, rf) ==
    LET view == filter_df_by_range(rows, key)
        pack == compute_series(view, products)
    IN  [view |-> view, sp |-> pack, report |-> compute_metrics(pack, rf)]

\* what the caller of thread t holds once the calls have returned
ThreadOutput(t) ==
    [view |-> Shown(th[t], df), sp |-> PackOf(th[t], df),
     report |-> th[t].report]

C15_Pure ==
    /\ [][df' = df]_vars
    /\ [][\A t \in Threads :
             th[t].sp.raised = "none" => th'[t].sp = th[t].sp]_vars
    /\ [](\A t \in Threads :
             th[t].pc = Returned =>
                 ThreadOutput(t) = Sequential(df, range_key, selected, rf_annual))
    /\ [](\A t, u \in Threads :
             (th[t].pc = Returned /\ th[u].pc = Returned) =>
                 ThreadOutput(t) = ThreadOutput(u))

\* thread 1 has returned while thread 2 is in compute_series, between the
\* statement that read the shared table itself and the next one
C15_Witness ==
    /\ pc = "threads"
    /\ th[1].pc = Returned /\ th[1].report.raised = "none"
    /\ th[2].pc # Returned
    /\ Statements[th[2].pc].binds = "equity"
    /\ th[2].alias
    /\ selected = <<"A", "B">>
    /\ Len(df) = 2

(***************************************************************************)
(* C16.  The metrics tables: for a selection with a valid column, one row  *)
(* per metric in the order of compute_metrics, one value per display       *)
(* column in every row, one column for "ALL" and else one per selected     *)
(* instrument that exists.  The builders hand compute_series a third       *)
(* argument, which it does not take: each such call raises TypeError.      *)
(***************************************************************************)
TableBuilt == pc \in {"table", "portfolio_table"}

\* display columns the claim gives the selection
ClaimedColumns ==
    IF IsIn("ALL", selected) THEN 1
    ELSE Cardinality({i \in 1..Len(selected) : HasColumn(selected[i])})

\* C16 as stated
C16_TableShape ==
    (TableBuilt /\ ClaimedColumns >= 1) =>
        /\ metrics_table.raised = "none"
        /\ Len(metrics_table.columns) = 1 + ClaimedColumns
        /\ Len(metrics_table.rows) = Len(MetricNames)
        /\ \A j \in 1..Len(metrics_table.rows) :
              /\ metrics_table.rows[j].Metric = MetricNames[j]
              /\ Len(metrics_table.rows[j].cells) = ClaimedColumns

\* what the code does: with a display column the call ends in TypeError,
\* without one it returns the table with no rows
C16_TableRaises ==
    TableBuilt =>
        IF ClaimedColumns >= 1
        THEN metrics_table.raised = "TypeError"
        ELSE /\ metrics_table.raised = "none"
             /\ metrics_table.columns = <<"Metric">>
             /\ metrics_table.rows = <<>>

(***************************************************************************)
(* C17.  rolling_correlation_figure: below two instruments an empty chart, *)
(* returned without failing; with k >= 2 instruments k*(k-1)/2 series, one *)
(* for each unordered pair, each the rolling correlation of the two        *)
(* instruments' own return series.                                         *)
(***************************************************************************)
FigDone == pc = "figure"

AllExist == \A j \in 1..Len(selected) : HasColumn(selected[j])

\* the returns of instrument p taken alone
OwnReturns(p) == compute_series(df, <<p>>).returns

C17_PairwiseTraces ==
    FigDone =>
        /\ Len(selected) < 2 => (fig.raised = "none" /\ fig.traces = <<>>)
        /\ (Len(selected) >= 2 /\ AllExist) =>
              LET k == Len(selected)
              IN  /\ fig.raised = "none"
                  /\ 2 * Len(fig.traces) = k * (k - 1)
                  /\ \A i \in 1..k : \A j \in (i + 1)..k :
                        LET hits == {n \in 1..Len(fig.traces) :
                                        fig.traces[n].name =
                                            <<format_product_label(selected[i]),
                                              format_product_label(selected[j])>>}
                        IN  /\ Cardinality(hits) = 1
                            /\ \A n \in hits :
                                  fig.traces[n].y =
                                      RollCorr(OwnReturns(selected[i]),
                                               OwnReturns(selected[j]),
                                               fig.window)

\* three instruments, three series; over a window of two periods the last
\* point of A against D is a correlation of -1
C17_Witness ==
    /\ FigDone
    /\ selected = <<"A", "B", "D">>
    /\ fig.window = 2
    /\ Len(df) = 3
    /\ Len(fig.traces) = 3
    /\ fig.traces[2].name = <<format_product_label("A"), format_product_label("D")>>
    /\ fig.traces[2].y[3] = [k |-> "sqrt", n |-> -1, d |-> 1]

\* one instrument, not even a column of the table: an empty chart
C17_WitnessEmpty ==
    /\ FigDone
    /\ selected = <<"C">>
    /\ fig.raised = "none"
    /\ fig.traces = <<>>

(***************************************************************************)
(* C18.  The CAGR row is a number exactly when the implied starting        *)
(* capital and the final equity are positive and there are two dates, and  *)
(* "—" otherwise.  The power of the CAGR overflows on steep growth over a  *)
(* short span, and then no report is returned at all.                      *)
(***************************************************************************)
\* the condition the claim gives for a defined CAGR
CagrCondition ==
    /\ Len(sp.equity) >= 1
    /\ sp.equity[1] - sp.pnl[1] > 0
    /\ sp.equity[Len(sp.equity)] > 0
    /\ Len(sp.dates) >= 2

\* C18 as stated: compute_metrics reports, and the CAGR row is a number
\* under the condition and "—" in every other case
C18_CagrDefinedIff ==
    MetricsDone =>
        /\ report.raised = "none"
        /\ ~IsDash("CAGR") <=> CagrCondition

\* what the code does: the same, unless the power overflows; then the call
\* raises OverflowError, which happens only under the condition
C18_CagrDefinedUnlessOverflow ==
    MetricsDone =>
        /\ report.raised \in {"none", "OverflowError"}
        /\ report.raised = "none" => (~IsDash("CAGR") <=> CagrCondition)
        /\ report.raised = "OverflowError" => CagrCondition

\* capital 1 grown to 7 from one day to the next
C18_Overflow ==
    /\ MetricsDone
    /\ report.raised = "OverflowError"
    /\ sp.dates = << <<2024, 1, 31>>, <<2024, 2, 1>> >>
    /\ sp.equity = <<4, 7>>

(***************************************************************************)
(* C19.  A pack of compute_series has equity[0] = pnl[0]: the implied      *)
(* starting capital is 0, so CAGR and Calmar are "—" for every table and   *)
(* every selection.                                                        *)
(***************************************************************************)
C19_CagrNeverDefined ==
    /\ (SeriesDone /\ Len(sp.equity) >= 1) =>
          /\ sp.equity[1] = sp.pnl[1]
          /\ InitCapital(sp) = Num(0)
    /\ MetricsDone =>
          /\ report.raised = "none"
          /\ IsDash("CAGR")
          /\ IsDash("Calmar")

\* three dates, a positive final equity and a drawdown on the way: all
\* that CAGR and Calmar need but the starting capital
C19_Witness ==
    /\ MetricsDone
    /\ Len(sp.dates) = 3
    /\ sp.equity = <<1, 0, 1>>
    /\ sp.drawdown[2] < 0
    /\ IsDash("CAGR") /\ IsDash("Calmar")

(***************************************************************************)
(* C20.  Max Drawdown is the least value of the drawdown sequence ("—" for *)
(* the empty one); Calmar is a number only when CAGR is one and the max    *)
(* drawdown is below zero.                                                 *)
(***************************************************************************)
\* v is the least drawdown of the pack
IsLeastDrawdown(v) ==
    /\ \E i \in 1..Len(sp.drawdown) : sp.drawdown[i] = v
    /\ \A i \in 1..Len(sp.drawdown) : v <= sp.drawdown[i]

C20_MaxDrawdownCalmar ==
    (MetricsDone /\ report.raised = "none") =>
        /\ Len(sp.drawdown) = 0 => IsDash("Max Drawdown")
        /\ Len(sp.drawdown) > 0 =>
              /\ ValueOf("Max Drawdown").fmt = "pct"
              /\ ValueOf("Max Drawdown").k = "num"
              /\ ValueOf("Max Drawdown").d = 1
              /\ IsLeastDrawdown(ValueOf("Max Drawdown").n)
        /\ ~IsDash("Calmar") <=>
              /\ ~IsDash("CAGR")
              /\ \E i \in 1..Len(sp.drawdown) : sp.drawdown[i] < 0

\* capital 2, a gain and then a loss: CAGR is a number, the max drawdown
\* is -1 and Calmar is a number
C20_Witness ==
    /\ MetricsDone
    /\ report.raised = "none"
    /\ sp.equity = <<3, 2>>
    /\ sp.drawdown = <<0, -1>>
    /\ ValueOf("Max Drawdown").n = -1
    /\ ~IsDash("CAGR") /\ ~IsDash("Calmar")

\* a defined CAGR without any drawdown: Calmar stays "—"
C20_WitnessNoDrawdown ==
    /\ MetricsDone
    /\ report.raised = "none"
    /\ ~IsDash("CAGR")
    /\ ValueOf("Max Drawdown").n = 0
    /\ IsDash("Calmar")

(***************************************************************************)
(* C21.  Sharpe and Volatility are numbers under one and the same          *)
(* condition, a positive sample deviation of the excess returns.  The      *)
(* claim is that this means two or more observations, not all equal, and   *)
(* that with all excess returns equal both rows are "—".  The deviation    *)
(* the code compares with 0 is the float64 one, and three equal returns of *)
(* 0.1 leave it at 1.7e-17: Sharpe and Volatility are numbers then.        *)
(***************************************************************************)
\* the excess returns differ somewhere; they are returns minus one constant
ExcessVaries ==
    \E i, j \in 1..Len(sp.returns) : sp.returns[i] # sp.returns[j]

\* C21 as stated: in every report Sharpe and Volatility are numbers exactly
\* when the excess returns are not all equal, and both are "—" when they
\* are all equal
C21_SharpeVolSameCondition ==
    (MetricsDone /\ report.raised = "none") =>
        /\ ~IsDash("Sharpe") <=> ExcessVaries
        /\ ~IsDash("Volatility") <=> ExcessVaries

\* what the code keeps: the two rows are numbers together or "—" together,
\* numbers whenever the excess returns vary, and "—" for equal excess
\* returns whose float64 mean is one of them
C21_SharpeVolTogether ==
    (MetricsDone /\ report.raised = "none") =>
        /\ IsDash("Sharpe") <=> IsDash("Volatility")
        /\ ExcessVaries => ~IsDash("Sharpe")
        /\ (/\ ~ExcessVaries
            /\ Len(sp.returns) >= 1
            /\ ~MeanDrifts(FSub(sp.returns[1], RfPeriod(rf_annual)),
                           Len(sp.returns))) => IsDash("Sharpe")

\* three periods that each return 0.1, at the default rate: the excess
\* returns are all equal, and Sharpe and Volatility are numbers
C21_EqualReturnsDefined ==
    /\ MetricsDone
    /\ report.raised = "none"
    /\ rf_annual = DEFAULT_RF
    /\ sp.returns = << Rat(1, 10), Rat(1, 10), Rat(1, 10) >>
    /\ ~IsDash("Sharpe") /\ ~IsDash("Volatility")

\* three periods of zero pnl and a positive risk-free rate: the excess
\* returns are equal and not zero, and both rows are "—"
C21_EqualReturnsDash ==
    /\ MetricsDone
    /\ RfPositive
    /\ sp.returns = << Num(0), Num(0), Num(0) >>
    /\ IsDash("Sharpe") /\ IsDash("Volatility")

(***************************************************************************)
(* C22.  Profit Factor is (sum of the gains) / |sum of the losses| exactly *)
(* when some period has a loss, 0 if there are losses and no gains, and    *)
(* "—" when no period has a loss.  Hit Rate is the share of periods with a *)
(* gain, "—" only for the series without periods.                          *)
(***************************************************************************)
\* the gains of the pack, period by period (0 where there is none)
Gains == [i \in 1..Len(sp.pnl) |-> IF sp.pnl[i] > 0 THEN sp.pnl[i] ELSE 0]

LossesByPeriod == [i \in 1..Len(sp.pnl) |-> IF sp.pnl[i] < 0 THEN sp.pnl[i] ELSE 0]

HasLoss == \E i \in 1..Len(sp.pnl) : sp.pnl[i] < 0

C22_ProfitFactorHitRate ==
    (MetricsDone /\ report.raised = "none") =>
        /\ IsDash("Profit Factor") <=> ~HasLoss
        /\ HasLoss =>
              /\ ValueOf("Profit Factor").fmt = "num"
              /\ ValueOf("Profit Factor").k = "num"
              /\ ValueOf("Profit Factor").n * (-SumInts(LossesByPeriod))
                    = SumInts(Gains) * ValueOf("Profit Factor").d
        /\ IsDash("Hit Rate") <=> Len(sp.pnl) = 0
        /\ Len(sp.pnl) > 0 =>
              /\ ValueOf("Hit Rate").fmt = "pct"
              /\ ValueOf("Hit Rate").k = "num"
              /\ ValueOf("Hit Rate").n * Len(sp.pnl)
                    = Cardinality({i \in 1..Len(sp.pnl) : sp.pnl[i] > 0})
                          * ValueOf("Hit Rate").d

\* losses and no gain: Profit Factor is the number 0 and Hit Rate is 0
C22_Witness ==
    /\ MetricsDone
    /\ sp.pnl = <<-1, 0, -1>>
    /\ ValueOf("Profit Factor").fmt = "num"
    /\ ValueOf("Profit Factor").n = 0
    /\ ValueOf("Hit Rate").n = 0
    /\ ~IsDash("Hit Rate")

(***************************************************************************)
(* C23.  Max DD Duration is the length of the longest run of consecutive   *)
(* periods with equity strictly below hwm: the streak counter is 0 at      *)
(* every period with equity >= hwm, the printed value is the largest value *)
(* of the counter, it is 0 exactly when drawdown is 0 in every period, and *)
(* it is at most n - 1 for a series of n >= 1 periods of compute_series.   *)
(***************************************************************************)
Below(i) == sp.equity[i] < sp.hwm[i]

\* length of the run of periods below the high-water mark that ends at i
RunEndingAt(i) ==
    IF i = 0 \/ ~Below(i) THEN 0
    ELSE LET starts == {s \in 1..i : \A k \in s..i : Below(k)}
         IN  i - (CHOOSE s \in starts : \A u \in starts : s <= u) + 1

LongestRun ==
    LET lens == {RunEndingAt(i) : i \in 0..Len(sp.equity)}
    IN  CHOOSE m \in lens : \A l \in lens : l <= m

C23_MaxDDDuration ==
    (MetricsDone /\ report.raised = "none") =>
        LET shown == ValueOf("Max DD Duration (bars)")
            n     == Len(sp.equity)
        IN  /\ shown.fmt = "int"
            /\ shown.n = LongestRun
            /\ \A i \in 1..n : DurLoop(sp, i)[2] = RunEndingAt(i)
            /\ \A i \in 1..n : ~Below(i) => DurLoop(sp, i)[2] = 0
            /\ shown.n = 0 <=> \A i \in 1..n : sp.drawdown[i] = 0
            /\ n >= 1 => shown.n <= n - 1

\* a drawdown of one period that is recovered: the counter is back at 0 at
\* the end while the report shows 1
C23_Witness ==
    /\ MetricsDone
    /\ Len(sp.equity) = 3
    /\ Below(2) /\ ~Below(3)
    /\ ValueOf("Max DD Duration (bars)").n = 1

\* the longest possible streak, n - 1 periods
C23_WitnessLongest ==
    /\ MetricsDone
    /\ Len(sp.equity) = 3
    /\ ValueOf("Max DD Duration (bars)").n = 2

(***************************************************************************)
(* C24.  seasonality_figure sums pnl over exactly the selected names that  *)
(* are instrument columns of the table; absent names and the date column   *)
(* are passed over without an error; a selection without any valid name,   *)
(* the empty one included, stands for all instrument columns.              *)
(***************************************************************************)
SeasonDone == pc = "seasonality"

\* the selected names that are instrument columns
ValidNames == {c \in {"A", "B", "D"} : InSel(c)}

\* the pnl of row i over a set of the instrument columns
PnlOver(names, i) ==
      (IF "A" \in names THEN df[i].A ELSE 0)
    + (IF "B" \in names THEN df[i].B ELSE 0)
    + (IF "D" \in names THEN df[i].D ELSE 0)

C24_SeasonalitySelection ==
    SeasonDone =>
        LET used == IF ValidNames = {} THEN {"A", "B", "D"} ELSE ValidNames
        IN  /\ fig.raised = "none"
            /\ Len(fig.traces) = 1
            /\ {fig.traces[1].products[j] :
                   j \in 1..Len(fig.traces[1].products)} = used
            /\ Len(fig.traces[1].products) = Cardinality(used)
            /\ Len(fig.traces[1].pnl) = Len(df)
            /\ \A i \in 1..Len(df) : fig.traces[1].pnl[i] = PnlOver(used, i)

\* an absent name next to a valid one: pnl is that of A alone, and differs
\* from the pnl of all columns
C24_Witness ==
    /\ SeasonDone
    /\ selected = <<"A", "C">>
    /\ Len(df) = 3
    /\ fig.traces[1].products = <<"A">>
    /\ fig.traces[1].pnl = <<-1, 1, 1>>
    /\ fig.traces[1].z # {}

\* no valid name at all: every instrument column is summed
C24_WitnessFallback ==
    /\ SeasonDone
    /\ selected = <<"C", "date">>
    /\ Len(df) = 2
    /\ fig.traces[1].products = <<"A", "B", "D">>
    /\ fig.traces[1].pnl[1] = df[1].A + df[1].B + df[1].D
    /\ fig.traces[1].pnl[1] = 3

(***************************************************************************)
(* C25.  filter_df_by_range is idempotent for every range key: filtering a *)
(* filtered table again with the same key returns the same rows, because   *)
(* the first filtering keeps the latest date, and so the window.           *)
(***************************************************************************)
C25_FilterIdempotent ==
    filtered.raised = "none" =>
        /\ filter_df_by_range(filtered.rows, filtered.key) = filtered.rows
        /\ Len(df) > 0 =>
              /\ Len(filtered.rows) > 0
              /\ MaxDate(filtered.rows) = MaxDate(df)

\* a window of three months that cut two rows away; what is left spans a
\* shorter time than the table did
C25_Witness ==
    /\ filtered.raised = "none"
    /\ filtered.key = "3M"
    /\ Len(df) = 4
    /\ Len(filtered.rows) = 2
    /\ filtered.rows[1].date # df[1].date
    /\ filter_df_by_range(filtered.rows, "3M") = filtered.rows

(***************************************************************************)
(* C26.  From the selection ["ALL"] on, whatever product buttons are       *)
(* clicked and strategies chosen, the stored selection is never empty and  *)
(* is either exactly ["ALL"] or a sorted list of product names without     *)
(* duplicates and without "ALL"; a click on "ALL", a change of strategy    *)
(* and deselecting the last selected product each make it ["ALL"].         *)
(***************************************************************************)
RankOf(name) == CHOOSE i \in 1..Len(NameOrder) : NameOrder[i] = name

C26_Shape ==
    /\ ui.products # <<>>
    /\ \/ ui.products = <<"ALL">>
       \/ /\ \A j \in 1..Len(ui.products) :
                /\ ui.products[j] # "ALL"
                /\ \E i \in 1..Len(NameOrder) : NameOrder[i] = ui.products[j]
          /\ \A j \in 1..(Len(ui.products) - 1) :
                RankOf(ui.products[j]) < RankOf(ui.products[j + 1])

\* a step in which set_products answers request req
SetProductsAnswers(req) ==
    /\ req.cb = "set_products"
    /\ req \in ui.pending
    /\ req \notin ui'.pending

C26_Resets ==
    \A req \in ui.pending :
        (/\ SetProductsAnswers(req)
         /\ \/ req.trig.id = "store-selected-strategy"
            \/ req.trig = Input("product-btn", "ALL")
            \/ (req.trig.id = "product-btn" /\ ui.products = <<req.trig.value>>))
        => ui'.products = <<"ALL">>

C26_ProductSelection == []C26_Shape /\ [][C26_Resets]_vars

\* B was clicked and then A: the list is sorted, not in click order
C26_Witness ==
    /\ Settled
    /\ ui.strategy = "S1"
    /\ ui.event = Input("product-btn", "A")
    /\ ui.products = <<"A", "B">>

\* the only selected product was clicked again
C26_WitnessLastDeselected ==
    /\ Settled
    /\ ui.strategy = "S1"
    /\ ui.event = Input("product-btn", "A")
    /\ ui.products = <<"ALL">>

\* a strategy was chosen: the selection is ["ALL"] and the sidebar is closed
C26_WitnessStrategyChange ==
    /\ Settled
    /\ ui.event = Input("strategy-radio", "S2")
    /\ ui.strategy = "S2"
    /\ ui.products = <<"ALL">>
    /\ ui.sidebar = FALSE

(***************************************************************************)
(* C27.  Once enforce_panel_visibility has processed a change of the panel *)
(* checklist, the empty checklist included, at most one of the four panels *)
(* of PANEL_KEYS is hidden.  When the user hides a second panel while one  *)
(* is hidden, the panel hidden before (store-last-deselected) is shown     *)
(* again, and the panel just deselected stays hidden and is stored as the  *)
(* last deselected one.                                                    *)
(***************************************************************************)
HiddenIn(value) == {p \in Panels : \A j \in 1..Len(value) : value[j] # p}

C27_AtMostOneHidden ==
    Pending("enforce_panel_visibility") = {} =>
        /\ Cardinality(HiddenIn(ui.visible)) <= 1
        /\ HiddenIn(ui.visible) = {} => ui.last_deselected = None
        /\ HiddenIn(ui.visible) # {} => HiddenIn(ui.visible) = {ui.last_deselected}

\* enforce_panel_visibility answers a checklist in which the panel hidden
\* so far and one more panel are unticked
C27_SecondHidden ==
    \A req \in ui.pending :
        (/\ req.cb = "enforce_panel_visibility"
         /\ req.trig.id = "panel-visibility"
         /\ req \notin ui'.pending
         /\ Cardinality(HiddenIn(ui.visible)) = 2
         /\ ui.last_deselected \in HiddenIn(ui.visible))
        => /\ HiddenIn(ui'.visible) = HiddenIn(ui.visible) \ {ui.last_deselected}
           /\ ui'.last_deselected \in HiddenIn(ui'.visible)
           /\ ui'.last_deselected # ui.last_deselected

C27_PanelVisibility == []C27_AtMostOneHidden /\ [][C27_SecondHidden]_vars

\* the checklist came with equity and metrics unticked, and the page shows
\* metrics again and hides equity: metrics was the panel hidden before
C27_Witness ==
    /\ Settled
    /\ ui.event = Input("panel-visibility", "custom,drawdown,")
    /\ ui.visible = <<"custom", "drawdown", "metrics">>
    /\ ui.last_deselected = "equity"

\* the empty checklist: three panels are shown again
C27_WitnessEmpty ==
    /\ Settled
    /\ ui.event = Input("panel-visibility", "")
    /\ Len(ui.visible) = 3
    /\ Cardinality(HiddenIn(ui.visible)) = 1

(***************************************************************************)
(* C28.  In update_range_controls a click on the range button of a panel   *)
(* advances the stored range of that panel alone by next_range_key, and a  *)
(* click on btn-cycle-range sets the ranges of all four panels to          *)
(* next_range_key of the equity panel's range, whatever the other three    *)
(* were.                                                                   *)
(***************************************************************************)
C28_RangeClicks ==
    \A req \in ui.pending :
        (req.cb = "update_range_controls" /\ req \notin ui'.pending) =>
            /\ \A p \in Panels :
                  req.trig.id = p \o "-range-btn" =>
                      /\ ui'.range[p] = ClaimedNext(ui.range[p])
                      /\ \A q \in Panels \ {p} : ui'.range[q] = ui.range[q]
            /\ req.trig.id = "btn-cycle-range" =>
                  \A p \in Panels : ui'.range[p] = ClaimedNext(ui.range.equity)

C28_PanelAndCycleClicks == [][C28_RangeClicks]_vars

\* the cycle button was clicked on a page whose four panels differ, the
\* equity panel being on 1M; the callback has yet to answer
C28_WitnessMixedBefore ==
    /\ ui.event = Input("btn-cycle-range", "")
    /\ Pending("update_range_controls") # {}
    /\ ui.range.equity = "1M"
    /\ ui.range.drawdown = "YTD"
    /\ ui.range.metrics = "All"
    /\ ui.range.custom = "3M"

\* the callback has answered a click on the cycle button: every panel
\* holds 3M, the option after 1M
C28_Witness ==
    /\ Settled
    /\ ui.event = Input("btn-cycle-range", "")
    /\ \A p \in Panels : ui.range[p] = "3M"

\* a click on the drawdown button moved the drawdown panel alone
C28_WitnessPanel ==
    /\ Settled
    /\ ui.event = Input("drawdown-range-btn", "")
    /\ ui.range.drawdown = "1M"
    /\ ui.range.equity = "All" /\ ui.range.metrics = "All" /\ ui.range.custom = "All"

(***************************************************************************)
(* C29.  After any sequence of range clicks, cycle clicks and resets       *)
(* handled by update_range_controls, each of the four stored ranges is one *)
(* of RANGE_OPTIONS, the label of each panel's button is its stored range, *)
(* and the cycle button reads "All Panels: k" exactly when all four ranges *)
(* are k, and "All Panels: Mixed" otherwise.                               *)
(***************************************************************************)
C29_RangesAndLabels ==
    /\ \A p \in Panels :
          /\ ui.range[p] \in {"1M", "3M", "YTD", "1Y", "All"}
          /\ ui.label[p] = ui.range[p]
    /\ \A k \in {"1M", "3M", "YTD", "1Y", "All"} :
          ui.cycle_label = "All Panels: " \o k
              <=> \A p \in Panels : ui.range[p] = k
    /\ ui.cycle_label = "All Panels: Mixed"
          <=> \E p, q \in Panels : ui.range[p] # ui.range[q]

\* the equity panel stayed behind the other three
C29_Witness ==
    /\ Settled
    /\ ui.range.equity = "All"
    /\ ui.range.drawdown = "1M" /\ ui.range.metrics = "1M" /\ ui.range.custom = "1M"
    /\ ui.label.drawdown = "1M"
    /\ ui.cycle_label = "All Panels: Mixed"

\* all four on one range that is not the initial one
C29_WitnessSame ==
    /\ Settled
    /\ \A p \in Panels : ui.range[p] = "YTD"
    /\ ui.cycle_label = "All Panels: YTD"

(***************************************************************************)
(* C30.  From any state of the page, once a click on btn-reset-layout and  *)
(* all the callbacks it triggers, directly or through                      *)
(* store-selected-strategy, have run, in whatever order, the page shows:   *)
(* all four ranges "All", layout "default", all four panels visible and no *)
(* last-deselected panel, strategy "Portfolio", products ["ALL"], and both *)
(* sidebars closed.                                                        *)
(***************************************************************************)
ResetClicked == ui.event = Input("btn-reset-layout", "")

ResetState ==
    /\ \A p \in Panels : ui.range[p] = "All"
    /\ ui.layout = "default"
    /\ ui.visible = <<"equity", "custom", "drawdown", "metrics">>
    /\ ui.last_deselected = None
    /\ ui.strategy = "Portfolio"
    /\ ui.products = <<"ALL">>
    /\ ~ui.sidebar
    /\ ~ui.settings

C30_ResetRestoresDefaults ==
    /\ [](ResetClicked /\ Settled => ResetState)
    /\ (ResetClicked /\ ~Settled) ~> (ResetClicked /\ Settled /\ ResetState)

\* the reset has run to its end
C30_Witness ==
    /\ ResetClicked
    /\ Settled
    /\ ResetState
    /\ ui.cycle_label = "All Panels: All"

\* half way: set_strategy has answered and put Portfolio in place of S1,
\* set_products and toggle_sidebar have not, and the ranges are still mixed
C30_WitnessHalfWay ==
    /\ ResetClicked
    /\ ui.strategy = "Portfolio"
    /\ ui.products = <<"A", "B">>
    /\ ui.sidebar
    /\ Pending("set_products") # {} /\ Pending("toggle_sidebar") # {}
    /\ ui.range.equity = "1M"
    /\ Pending("update_range_controls") # {}

=============================================================================
